---- MODULE Spec2Model ----
(***************************************************************************)
(* A model of the fetch-and-cache pipeline of the LinkedIn connections     *)
(* extension: CacheManager (src/src/cache-manager.ts), RequestQueue        *)
(* (src/unnamed/part_004), ErrorHandler (src/src/error-handler.ts) and     *)
(* ConnectionsService (src/src/connections-service.ts).                    *)
(*                                                                         *)
(* Every async method is cut at its awaits: one action per stretch of code *)
(* that runs without yielding, so that concurrent calls interleave exactly *)
(* where the event loop lets them.                                         *)
(***************************************************************************)
EXTENDS Integers, Sequences, FiniteSets, TLC

VARIABLES
    now,        \* Date.now()
    ticks,      \* how many times the clock has been advanced
    store,      \* chrome.storage.local, the entries under CACHE_PREFIX
    call,       \* per caller: the CacheManager call in progress
    queue,      \* RequestQueue.queue: the waiting items, head first
    items,      \* every item ever passed to enqueue, and where it stands
    isProcessing,       \* RequestQueue.isProcessing
    rateLimitBackoff,   \* RequestQueue.rateLimitBackoff
    sinceLast,  \* Date.now() - lastRequestTime, as far as the code tells it apart
    chains,     \* the processQueue chains alive, each at its await or timer
    stats,      \* RequestQueue.stats counters
    throttleHold,       \* ms left of the delay the last 429 response asked for
    faults,     \* how many requests the transport has failed
    controls,   \* how many times clear or pause has been called
    paused,     \* the items that were queued at the last pause(), until resume()
    svc,        \* ConnectionsService: the getAllConnections call under way
    enrich,     \* ConnectionsService: the background logo task and the logo cache
    overlap,    \* a logo task started while the task of enrich is still running
    errorLog,   \* ErrorHandler.errorLog, newest first
    criticalErrors,     \* chrome.storage.local, the value under critical_errors
    storing,    \* the storeCriticalError calls under way
    created,    \* what createError has been called with so far
    health,     \* the last getHealthStatus call: the statistics it read, its result
    limiter     \* a RateLimiter: its arguments, its requests, its last answer

cacheVars == <<store, call>>
clockVars == <<now, ticks>>
queueVars == <<queue, items, isProcessing, rateLimitBackoff, sinceLast, chains,
               stats, throttleHold, faults, controls, paused>>
vars == <<now, ticks, store, call, queue, items, isProcessing, rateLimitBackoff,
          sinceLast, chains, stats, throttleHold, faults, controls, paused,
          svc, enrich, overlap, errorLog, criticalErrors, storing, created, health, limiter>>
svcVars == <<svc, enrich, overlap>>
errVars == <<errorLog, criticalErrors, storing, created>>

(***************************************************************************)
(* Bounds of the model.                                                    *)
(***************************************************************************)
MaxTicks == 2
StartTime == 1000
MaxItems == 2
MaxChains == 2
MaxFaults == 4
MaxControls == 1
MaxCycles == 2
MaxSvcFaults == 4
MaxCompanies == 6
MaxLogoFaults == 2
ShortPage == 50
MaxErrorCalls == 3
BurstLen == 100
RecordLen == 200
MaxLimiterTicks == 5
MaxLimiterCalls == 5

(***************************************************************************)
(* CacheManager constants.                                                 *)
(***************************************************************************)
DEFAULT_TTL == 5 * 60 * 1000
MAX_CACHE_SIZE == 5 * 1024 * 1024
COMPRESSION_THRESHOLD == 1024
LOGO_TTL == 24 * 60 * 60 * 1000

Keys == {"connections", "company_logo_A", "company_logo_B"}
Callers == {"main", "enrich"}
Sequential == {"main"}

\* A cached value: its identity and the length of JSON.stringify of the
\* cache entry that carries it.
SmallLen == 600
LargeLen == 2400000
Data == {[v |-> <<"a">>, len |-> SmallLen], [v |-> <<"b">>, len |-> LargeLen]}
NoData == [v |-> <<>>, len |-> 0]
TTLs == {DEFAULT_TTL, LOGO_TTL}
CacheTickDelta == DEFAULT_TTL

Absent == [present |-> FALSE, data |-> NoData, timestamp |-> 0, ttl |-> 0,
           compressed |-> FALSE, size |-> 0]

Max(a, b) == IF a >= b THEN a ELSE b
Min(a, b) == IF a <= b THEN a ELSE b

\* Math.ceil(n * 0.3)
CeilThirtyPercent(n) == (3 * n + 9) \div 10

PresentKeys(s) == {k \in Keys : s[k].present}

RECURSIVE SumSizes(_, _)
SumSizes(s, ks) ==
    IF ks = {} THEN 0
    ELSE LET k == CHOOSE x \in ks : TRUE
         IN  s[k].size + SumSizes(s, ks \ {k})

\* an expiry test that finds every entry expired
AlwaysExpired(e, t) == TRUE

IsExpiredAt(e, t) == t - e.timestamp > e.ttl

\* getCacheStats: a scan of every entry under the prefix.
GetCacheStats(s, t) ==
    [totalItems   |-> Cardinality(PresentKeys(s)),
     totalSize    |-> SumSizes(s, PresentKeys(s)),
     expiredItems |-> Cardinality({k \in PresentKeys(s) : IsExpiredAt(s[k], t)})]

\* cleanupExpired: the keys it collects for removal.
ExpiredKeys(s, t) ==
    {k \in PresentKeys(s) :
        s[k].timestamp # 0 /\ s[k].ttl # 0 /\ IsExpiredAt(s[k], t)}

\* removeOldestItems: the possible results of sort-by-timestamp then
\* slice(0, count); entries of equal timestamp keep the store's key order,
\* which the code does not control.
OldestChoices(s, count) ==
    LET n == Min(count, Cardinality(PresentKeys(s)))
    IN  {R \in SUBSET PresentKeys(s) :
            /\ Cardinality(R) = n
            /\ \A r \in R : \A k \in PresentKeys(s) \ R :
                  s[r].timestamp <= s[k].timestamp}

RemoveKeys(s, ks) == [k \in Keys |-> IF k \in ks THEN Absent ELSE s[k]]

\* btoa of the UTF-8 bytes: four characters for every three bytes.
Base64Len(n) == 4 * ((n + 2) \div 3)

\* compressData: base64 of the text, or the text itself when the encoding
\* throws (String.fromCharCode(...bytes) overflows the argument limit).
CompressedLens(n) == {Base64Len(n), n}

\* set, lines 21-34: the entry written for data d.
EntriesFor(d, ts, ttl) ==
    LET lens == IF d.len > COMPRESSION_THRESHOLD THEN CompressedLens(d.len)
                ELSE {d.len}
    IN  {[present |-> TRUE, data |-> d, timestamp |-> ts, ttl |-> ttl,
          compressed |-> (l > COMPRESSION_THRESHOLD), size |-> l] : l \in lens}

\* Text values: JSON.stringify gives JSON text, btoa gives base64 text.
JsonStringify(e) == [tag |-> "json", val |-> e]

\* decompressData without its catch: the atob failure escapes.
DecompressDataNoCatch(text) ==
    IF text.tag = "b64" THEN text.val ELSE [tag |-> "error", val |-> text.val]

\* decompressData: atob accepts base64 text only; on any other text it
\* throws and the catch returns the text as it is.
DecompressData(text) ==
    IF text.tag = "b64" THEN text.val ELSE text

\* get, lines 57-64: the value handed back for a live entry.
HitValue(e) ==
    IF e.compressed
    THEN LET text == DecompressData(JsonStringify(e))
         IN  IF text.tag = "json" THEN text.val.data ELSE NoData
    ELSE e.data

NoReport == [valid |-> 0, invalid |-> 0, repaired |-> 0]

Idle == [pc |-> "idle", key |-> "connections", data |-> NoData, ttl |-> 0,
         ts |-> 0, keys |-> {}, count |-> 0, seen |-> Absent,
         snap |-> [k \in Keys |-> Absent], report |-> NoReport]

CacheInit ==
    /\ store = [k \in Keys |-> Absent]
    /\ call = [c \in Callers |-> Idle]

ClockInit ==
    /\ now = StartTime
    /\ ticks = 0

\* chrome.storage.local.remove(ks)
Drop(ks) == store' = RemoveKeys(store, ks)

(***************************************************************************)
(* CacheManager.set                                                        *)
(***************************************************************************)
\* lines 10-19: build the entry (timestamp = Date.now()), call
\* enforceStorageLimit.  snap records the store the call started on.
SetCall(c, k, d, ttl) ==
    /\ call[c].pc = "idle"
    /\ call' = [call EXCEPT ![c] = [Idle EXCEPT !.pc = "set_stats", !.key = k,
                                     !.data = d, !.ttl = ttl, !.ts = now,
                                     !.snap = store]]
    /\ UNCHANGED <<store, now, ticks>>
    /\ UNCHANGED <<queueVars, svcVars, errVars, health, limiter>>

\* enforceStorageLimit, lines 173-176
SetEnforceStats(c) ==
    /\ call[c].pc = "set_stats"
    /\ call' = [call EXCEPT ![c].pc =
                  IF GetCacheStats(store, now).totalSize > MAX_CACHE_SIZE
                  THEN "set_cleanup_read" ELSE "set_write"]
    /\ UNCHANGED <<store, now, ticks>>
    /\ UNCHANGED <<queueVars, svcVars, errVars, health, limiter>>

\* cleanupExpired, lines 148-157: read everything, collect the expired keys
CleanupRead(c) ==
    /\ call[c].pc \in {"set_cleanup_read", "cleanup_read"}
    /\ call' = [call EXCEPT ![c].keys = ExpiredKeys(store, now),
                            ![c].ts = IF call[c].pc = "set_cleanup_read"
                                      THEN @ ELSE now,
                            ![c].pc = IF call[c].pc = "set_cleanup_read"
                                      THEN "set_cleanup_remove"
                                      ELSE "cleanup_remove"]
    /\ UNCHANGED <<store, now, ticks>>
    /\ UNCHANGED <<queueVars, svcVars, errVars, health, limiter>>

\* cleanupExpired, lines 159-164: remove them
CleanupRemove(c) ==
    /\ call[c].pc \in {"set_cleanup_remove", "cleanup_remove"}
    /\ Drop(call[c].keys)
    /\ call' = [call EXCEPT ![c] =
                  IF call[c].pc = "set_cleanup_remove"
                  THEN [call[c] EXCEPT !.pc = "set_stats2", !.keys = {}]
                  ELSE Idle]
    /\ UNCHANGED <<now, ticks>>
    /\ UNCHANGED <<queueVars, svcVars, errVars, health, limiter>>

\* enforceStorageLimit, lines 182-185
SetEnforceStats2(c) ==
    /\ call[c].pc = "set_stats2"
    /\ LET st == GetCacheStats(store, now)
       IN  call' = [call EXCEPT ![c] =
                      IF st.totalSize > MAX_CACHE_SIZE
                      THEN [call[c] EXCEPT !.pc = "set_evict_read",
                                           !.count = CeilThirtyPercent(st.totalItems)]
                      ELSE [call[c] EXCEPT !.pc = "set_write"]]
    /\ UNCHANGED <<store, now, ticks>>
    /\ UNCHANGED <<queueVars, svcVars, errVars, health, limiter>>

\* removeOldestItems, lines 194-200
EvictRead(c) ==
    /\ call[c].pc = "set_evict_read"
    /\ \E R \in OldestChoices(store, call[c].count) :
          call' = [call EXCEPT ![c].pc = "set_evict_remove", ![c].keys = R]
    /\ UNCHANGED <<store, now, ticks>>
    /\ UNCHANGED <<queueVars, svcVars, errVars, health, limiter>>

\* removeOldestItems, lines 202-205
EvictRemove(c) ==
    /\ call[c].pc = "set_evict_remove"
    /\ Drop(call[c].keys)
    /\ call' = [call EXCEPT ![c].pc = "set_write", ![c].keys = {}, ![c].count = 0]
    /\ UNCHANGED <<now, ticks>>
    /\ UNCHANGED <<queueVars, svcVars, errVars, health, limiter>>

\* set, lines 21-34: serialize, compress above the threshold, write
SetWrite(c) ==
    /\ call[c].pc = "set_write"
    /\ \E e \in EntriesFor(call[c].data, call[c].ts, call[c].ttl) :
          store' = [store EXCEPT ![call[c].key] = e]
    /\ call' = [call EXCEPT ![c].pc = "set_return"]
    /\ UNCHANGED <<now, ticks>>
    /\ UNCHANGED <<queueVars, svcVars, errVars, health, limiter>>

\* set has returned to its caller
SetReturn(c) ==
    /\ call[c].pc = "set_return"
    /\ call' = [call EXCEPT ![c] = Idle]
    /\ UNCHANGED <<store, now, ticks>>
    /\ UNCHANGED <<queueVars, svcVars, errVars, health, limiter>>

(***************************************************************************)
(* CacheManager.get, remove, clear, cleanupExpired                         *)
(***************************************************************************)
\* What get decides on the entry it read at time t: the value it will
\* return, and whether it first removes the entry.
GetOutcome(e, t) ==
    IF ~e.present THEN [pc |-> "get_return", data |-> NoData]
    ELSE IF IsExpiredAt(e, t) THEN [pc |-> "get_remove", data |-> NoData]
    ELSE [pc |-> "get_return", data |-> HitValue(e)]

\* get, lines 45-64: read the entry, test its expiry, decompress
GetCall(c, k) ==
    /\ call[c].pc = "idle"
    /\ LET out == GetOutcome(store[k], now)
       IN  call' = [call EXCEPT ![c] = [Idle EXCEPT !.pc = out.pc, !.key = k,
                                        !.data = out.data, !.ts = now,
                                        !.seen = store[k]]]
    /\ UNCHANGED <<store, now, ticks>>
    /\ UNCHANGED <<queueVars, svcVars, errVars, health, limiter>>

\* get, line 52: remove(key) of the entry found expired
GetRemove(c) ==
    /\ call[c].pc = "get_remove"
    /\ Drop({call[c].key})
    /\ call' = [call EXCEPT ![c].pc = "get_return"]
    /\ UNCHANGED <<now, ticks>>
    /\ UNCHANGED <<queueVars, svcVars, errVars, health, limiter>>

\* get has returned call[c].data to its caller
GetReturn(c) ==
    /\ call[c].pc = "get_return"
    /\ call' = [call EXCEPT ![c] = Idle]
    /\ UNCHANGED <<store, now, ticks>>
    /\ UNCHANGED <<queueVars, svcVars, errVars, health, limiter>>

\* remove, lines 71-78
RemoveCall(c, k) ==
    /\ call[c].pc = "idle"
    /\ store[k].present
    /\ Drop({k})
    /\ UNCHANGED <<call, now, ticks>>
    /\ UNCHANGED <<queueVars, svcVars, errVars, health, limiter>>

\* clear, lines 82-83: list the keys under the prefix
ClearRead(c) ==
    /\ call[c].pc = "idle"
    /\ PresentKeys(store) # {}
    /\ call' = [call EXCEPT ![c] = [Idle EXCEPT !.pc = "clear_remove",
                                                !.keys = PresentKeys(store)]]
    /\ UNCHANGED <<store, now, ticks>>
    /\ UNCHANGED <<queueVars, svcVars, errVars, health, limiter>>

\* clear, lines 85-88
ClearRemove(c) ==
    /\ call[c].pc = "clear_remove"
    /\ Drop(call[c].keys)
    /\ call' = [call EXCEPT ![c] = Idle]
    /\ UNCHANGED <<now, ticks>>
    /\ UNCHANGED <<queueVars, svcVars, errVars, health, limiter>>

\* cleanupExpired called on its own, on a cache that holds something
CleanupCall(c) ==
    /\ call[c].pc = "idle"
    /\ PresentKeys(store) # {}
    /\ call' = [call EXCEPT ![c] = [Idle EXCEPT !.pc = "cleanup_read"]]
    /\ UNCHANGED <<store, now, ticks>>
    /\ UNCHANGED <<queueVars, svcVars, errVars, health, limiter>>

(***************************************************************************)
(* CacheManager.validateCache                                              *)
(***************************************************************************)
\* The fields validateCache tests; a field that is missing reads as 0.
EntryFields == {"timestamp", "ttl"}

\* Something other than CacheManager damages the stored entry of key k: it
\* loses field f.
Corrupt(k, f) ==
    /\ store[k].present
    /\ store[k][f] # 0
    /\ store' = [store EXCEPT ![k][f] = 0]
    /\ UNCHANGED <<call, now, ticks>>
    /\ UNCHANGED <<queueVars, svcVars, errVars, health, limiter>>

\* a structure test that looks at the ttl only
MissingTtlKeys(s) == {k \in PresentKeys(s) : s[k].ttl = 0}

\* validateCache, lines 245-252: the entries that fail the structure test
InvalidKeys(s) == {k \in PresentKeys(s) : s[k].timestamp = 0 \/ s[k].ttl = 0}

\* validateCache, lines 235-265: read everything, count the entries that
\* pass and fail the structure test (decompressData never throws, so a
\* compressed entry that passes the test counts as valid)
ValidateRead(c) ==
    /\ call[c].pc = "idle"
    /\ LET keysToRemove == InvalidKeys(store)
       IN  call' = [call EXCEPT ![c] =
                      [Idle EXCEPT
                         !.pc = IF keysToRemove # {} THEN "validate_remove"
                                ELSE "validate_return",
                         !.keys = keysToRemove,
                         !.snap = store,
                         !.report =
                            [valid |-> Cardinality(PresentKeys(store) \ keysToRemove),
                             invalid |-> Cardinality(keysToRemove),
                             repaired |-> 0]]]
    /\ UNCHANGED <<store, now, ticks>>
    /\ UNCHANGED <<queueVars, svcVars, errVars, health, limiter>>

\* validateCache, lines 267-271: remove the invalid entries
ValidateRemove(c) ==
    /\ call[c].pc = "validate_remove"
    /\ Drop(call[c].keys)
    /\ call' = [call EXCEPT ![c].pc = "validate_return",
                            ![c].report.repaired = Cardinality(call[c].keys)]
    /\ UNCHANGED <<now, ticks>>
    /\ UNCHANGED <<queueVars, svcVars, errVars, health, limiter>>

\* validateCache has returned call[c].report to its caller
ValidateReturn(c) ==
    /\ call[c].pc = "validate_return"
    /\ call' = [call EXCEPT ![c] = Idle]
    /\ UNCHANGED <<store, now, ticks>>
    /\ UNCHANGED <<queueVars, svcVars, errVars, health, limiter>>

\* The clock advances.
CacheTick ==
    /\ ticks < MaxTicks
    /\ now' = now + CacheTickDelta
    /\ ticks' = ticks + 1
    /\ UNCHANGED cacheVars
    /\ UNCHANGED <<queueVars, svcVars, errVars, health, limiter>>

\* One step of a CacheManager call made by caller c.
CacheStep(c) ==
    \/ \E k \in Keys, d \in Data, ttl \in TTLs : SetCall(c, k, d, ttl)
    \/ SetEnforceStats(c)
    \/ CleanupRead(c)
    \/ CleanupRemove(c)
    \/ SetEnforceStats2(c)
    \/ EvictRead(c)
    \/ EvictRemove(c)
    \/ SetWrite(c)
    \/ SetReturn(c)
    \/ \E k \in Keys : GetCall(c, k)
    \/ GetRemove(c)
    \/ GetReturn(c)
    \/ \E k \in Keys : RemoveCall(c, k)
    \/ ClearRead(c)
    \/ ClearRemove(c)
    \/ CleanupCall(c)

\* The cache used by one caller at a time, while the clock runs.
CacheNext ==
    \/ \E c \in Sequential : CacheStep(c)
    \/ CacheTick

(***************************************************************************)
(* RequestQueue                                                            *)
(***************************************************************************)
minDelay == 300
maxDelay == 1000
maxRetries == 3
defaultRetryDelay == 1000
defaultBackoff == 5000
backoffDecay == 1000
retryBoost == 10
nextCycleDelay == 100

\* one item more than the general runs enqueue: the runs that check the
\* spacing of the dispatches use it
ItemIds == 1..(MaxItems + 1)
ChainIds == 1..MaxChains
Priorities == {0, 20}

\* Math.random() * (maxDelay - minDelay) + minDelay: the ends of the range
RequiredDelays == {minDelay, maxDelay - 1}
\* Math.random() * 1000, line 365: the least value of the range
RetryJitters == {0}
\* Math.random() * 1000, line 365: Math.random() is at least 0 and less
\* than 1, so the jitter is at least 0 and less than maxJitter
maxJitter == 1000
JitterRange == {0, maxJitter - 1}
\* how long the queue may sit with no sleep or timer pending
IdleGaps == {maxDelay}

\* A JavaScript number: NaN or an integer.
Num(n) == [nan |-> FALSE, ms |-> n]
NaN == [nan |-> TRUE, ms |-> 0]
\* Math.max
JsMax(x, y) == IF x.nan \/ y.nan THEN NaN ELSE Num(Max(x.ms, y.ms))
\* x - n
JsMinus(x, n) == IF x.nan THEN NaN ELSE Num(x.ms - n)
\* x > 0
JsPositive(x) == ~x.nan /\ x.ms > 0

\* The retry-after header of a 429 response: absent, delay-seconds or an
\* HTTP-date.
RetryAfterHeaders ==
    {[kind |-> "absent", secs |-> 0], [kind |-> "seconds", secs |-> 2],
     [kind |-> "date", secs |-> 0]}

\* Number.parseInt(retryAfter) * 1000
ParseIntTimes1000(h) == IF h.kind = "seconds" THEN Num(h.secs * 1000) ELSE NaN

\* makeRequest, line 337
BackoffTime(h) ==
    IF h.kind = "absent" THEN Num(defaultBackoff) ELSE ParseIntTimes1000(h)

\* makeRequest, line 339
RaiseBackoff(cur, h) == JsMax(cur, BackoffTime(h))

\* processQueue, line 277
DecayBackoff(cur) == JsMax(Num(0), JsMinus(cur, backoffDecay))

\* What the transport can fail with: a 429, an abort by the timeout, a failed
\* fetch, any other status or an unreadable body.
Failures == {"RateLimited", "AbortError", "FetchError", "HttpError"}

\* handleRequestError, lines 355-357
IsRetryable(err) == err \in {"RateLimited", "AbortError", "FetchError"}

\* a retry policy that allows one retry more
ShouldRetryOnceMore(retries, err) == retries <= maxRetries /\ IsRetryable(err)

\* handleRequestError, line 359
ShouldRetry(retries, err) == retries < maxRetries /\ IsRetryable(err)

\* after: the items that had failed and were waiting for their retry when
\* this item was enqueued, with no more than their priority
NoItem == [st |-> "none", priority |-> 0, retries |-> 0, dispatches |-> 0,
           settled |-> 0, result |-> "none", after |-> {}]
Free == [pc |-> "free", item |-> 0, rem |-> 0]

RECURSIVE Pow2(_)
Pow2(n) == IF n = 0 THEN 1 ELSE 2 * Pow2(n - 1)

\* a backoff that grows by the base delay with each retry
BackoffLinear(retries) == defaultRetryDelay * retries

\* handleRequestError, line 363, with retries already incremented
BackoffDelay(retries) == defaultRetryDelay * Pow2(retries - 1)

\* an insertion that loses the item
DropItem(q, i, p, its) == q

\* findIndex(q => q.priority < p), then push or splice: the queue after
\* inserting item i of priority p
RECURSIVE InsertByPriority(_, _, _, _)
InsertByPriority(q, i, p, its) ==
    IF q = <<>> THEN <<i>>
    ELSE IF its[Head(q)].priority < p THEN <<i>> \o q
    ELSE <<Head(q)>> \o InsertByPriority(Tail(q), i, p, its)

QueueInit ==
    /\ queue = <<>>
    /\ items = [i \in ItemIds |-> NoItem]
    /\ isProcessing = FALSE
    /\ rateLimitBackoff = Num(0)
    /\ sinceLast = maxDelay
    /\ chains = [w \in ChainIds |-> Free]
    /\ stats = [totalRequests |-> 0, successfulRequests |-> 0,
                failedRequests |-> 0, rateLimitHits |-> 0]
    /\ throttleHold = 0
    /\ faults = 0
    /\ controls = 0
    /\ paused = {}

\* processQueue, lines 288-291: the item goes to the transport
Dispatch(w, i, its) ==
    /\ chains' = [chains EXCEPT ![w] = [pc |-> "in_flight", item |-> i, rem |-> 0]]
    /\ items' = [k \in ItemIds |->
                   IF k = i
                   THEN [its[i] EXCEPT !.st = "held", !.dispatches = @ + 1,
                                       !.after = {}]
                   ELSE IF its[k].st \in {"queued", "held"}
                        THEN [its[k] EXCEPT !.after = @ \ {i}]
                        ELSE its[k]]
    /\ sinceLast' = 0

\* processQueue, lines 280-291: wait until a random delay has passed since
\* the last request, then dispatch
DelayThenDispatch(w, i, its) ==
    \E req \in RequiredDelays :
        IF sinceLast < req
        THEN /\ chains' = [chains EXCEPT ![w] =
                             [pc |-> "jitter_sleep", item |-> i, rem |-> req - sinceLast]]
             /\ items' = [its EXCEPT ![i].st = "held"]
             /\ UNCHANGED sinceLast
        ELSE Dispatch(w, i, its)

\* processQueue, lines 261-291, run by chain w on queue q up to its first
\* await
RunProcessQueue(w, q, its) ==
    IF q = <<>>
    THEN /\ queue' = q
         /\ isProcessing' = FALSE
         /\ chains' = [chains EXCEPT ![w] = Free]
         /\ items' = its
         /\ UNCHANGED sinceLast
    ELSE /\ queue' = Tail(q)
         /\ isProcessing' = TRUE
         /\ IF JsPositive(rateLimitBackoff)
            THEN /\ chains' = [chains EXCEPT ![w] =
                                 [pc |-> "backoff_sleep", item |-> Head(q),
                                  rem |-> rateLimitBackoff.ms]]
                 /\ items' = [its EXCEPT ![Head(q)].st = "held"]
                 /\ UNCHANGED sinceLast
            ELSE DelayThenDispatch(w, Head(q), its)

\* the items that have failed and wait for their retry: in the sleep of
\* handleRequestError, line 372, or back in the queue
AwaitingRetry ==
    {a \in ItemIds :
        /\ items[a].retries > 0
        /\ items[a].st \in {"queued", "held"}
        /\ \A w \in ChainIds : ~(chains[w].pc = "in_flight" /\ chains[w].item = a)}

\* the priority item a had when it failed: line 375 raises it after the sleep
FailedPriority(a) ==
    IF \E w \in ChainIds : chains[w].pc = "retry_sleep" /\ chains[w].item = a
    THEN items[a].priority
    ELSE items[a].priority - retryBoost

\* the items waiting for their retry whose priority is at least p
RetriesOwed(p) == {a \in AwaitingRetry : FailedPriority(a) >= p}

FreeChains == {w \in ChainIds : chains[w].pc = "free"}
NewItems == {i \in ItemIds : items[i].st = "none"}

\* enqueue, lines 230-258, in a run that enqueues at most n items
EnqueueWithin(p, n) ==
    /\ NewItems \cap (1..n) # {}
    /\ LET i == CHOOSE x \in NewItems : \A y \in NewItems : x <= y
           its == [items EXCEPT ![i] = [NoItem EXCEPT !.st = "queued", !.priority = p,
                                                     !.after = RetriesOwed(p)]]
           q == InsertByPriority(queue, i, p, its)
       IN  /\ stats' = [stats EXCEPT !.totalRequests = @ + 1]
           /\ IF ~isProcessing
              THEN /\ FreeChains # {}
                   /\ RunProcessQueue(CHOOSE w \in FreeChains : TRUE, q, its)
              ELSE /\ queue' = q
                   /\ items' = its
                   /\ UNCHANGED <<isProcessing, chains, sinceLast>>
    /\ UNCHANGED <<rateLimitBackoff, throttleHold, faults>>
    /\ UNCHANGED <<controls, paused>>
    /\ UNCHANGED <<cacheVars, clockVars, svcVars, errVars, health, limiter>>

Enqueue(p) == EnqueueWithin(p, MaxItems)

\* processQueue, lines 276-291: the backoff sleep is over
BackoffWake(w) ==
    /\ chains[w].pc = "backoff_sleep"
    /\ chains[w].rem = 0
    /\ rateLimitBackoff' = DecayBackoff(rateLimitBackoff)
    /\ DelayThenDispatch(w, chains[w].item, items)
    /\ UNCHANGED <<queue, isProcessing, stats, throttleHold, faults>>
    /\ UNCHANGED <<controls, paused>>
    /\ UNCHANGED <<cacheVars, clockVars, svcVars, errVars, health, limiter>>

\* processQueue, lines 285-291: the delay between requests is over
JitterWake(w) ==
    /\ chains[w].pc = "jitter_sleep"
    /\ chains[w].rem = 0
    /\ Dispatch(w, chains[w].item, items)
    /\ UNCHANGED <<queue, isProcessing, rateLimitBackoff, stats, throttleHold, faults>>
    /\ UNCHANGED <<controls, paused>>
    /\ UNCHANGED <<cacheVars, clockVars, svcVars, errVars, health, limiter>>

\* processQueue, lines 292-303 and 309: the transport answered with a body
ResponseOk(w) ==
    /\ chains[w].pc = "in_flight"
    /\ stats' = [stats EXCEPT !.successfulRequests = @ + 1]
    /\ items' = [items EXCEPT ![chains[w].item].st = "resolved",
                              ![chains[w].item].settled = @ + 1,
                              ![chains[w].item].result = "response"]
    /\ chains' = [chains EXCEPT ![w] = [pc |-> "next_timer", item |-> 0,
                                        rem |-> nextCycleDelay]]
    /\ UNCHANGED <<queue, isProcessing, rateLimitBackoff, sinceLast, throttleHold, faults>>
    /\ UNCHANGED <<controls, paused>>
    /\ UNCHANGED <<cacheVars, clockVars, svcVars, errVars, health, limiter>>

\* counters that count every failed attempt
CountAttempt(st) == [st EXCEPT !.failedRequests = @ + 1]

\* handleRequestError, lines 359-383: a request that will be retried leaves
\* the counters as they are
KeepStats(st) == st

\* handleRequestError, lines 354-389, up to its await, and line 309 when it
\* does not retry; st is the stats record the failing request left and
\* jitters the values Math.random() * 1000 is drawn from
HandleRequestErrorWith(w, i, err, st, jitters) ==
    IF ShouldRetry(items[i].retries, err)
    THEN /\ \E j \in jitters :
               chains' = [chains EXCEPT ![w] =
                            [pc |-> "retry_sleep", item |-> i,
                             rem |-> BackoffDelay(items[i].retries + 1) + j]]
         /\ items' = [items EXCEPT ![i].retries = @ + 1]
         /\ stats' = KeepStats(st)
    ELSE /\ chains' = [chains EXCEPT ![w] = [pc |-> "next_timer", item |-> 0,
                                             rem |-> nextCycleDelay]]
         /\ items' = [items EXCEPT ![i].st = "rejected", ![i].settled = @ + 1,
                                   ![i].result = err]
         /\ stats' = [st EXCEPT !.failedRequests = @ + 1]

HandleRequestError(w, i, err, st) ==
    HandleRequestErrorWith(w, i, err, st, RetryJitters)

\* makeRequest, lines 334-341: the transport answered 429
Response429(w, h) ==
    /\ chains[w].pc = "in_flight"
    /\ faults < MaxFaults
    /\ faults' = faults + 1
    /\ rateLimitBackoff' = RaiseBackoff(rateLimitBackoff, h)
    /\ throttleHold' = IF BackoffTime(h).nan THEN throttleHold
                       ELSE Max(throttleHold, BackoffTime(h).ms)
    /\ HandleRequestError(w, chains[w].item, "RateLimited",
                          [stats EXCEPT !.rateLimitHits = @ + 1])
    /\ UNCHANGED <<queue, isProcessing, sinceLast>>
    /\ UNCHANGED <<controls, paused>>
    /\ UNCHANGED <<cacheVars, clockVars, svcVars, errVars, health, limiter>>

\* makeRequest, lines 343-351: the request was aborted by its timeout, the
\* fetch failed, or the status was not ok
ResponseFail(w, err) ==
    /\ chains[w].pc = "in_flight"
    /\ faults < MaxFaults
    /\ faults' = faults + 1
    /\ HandleRequestError(w, chains[w].item, err, stats)
    /\ UNCHANGED <<queue, isProcessing, rateLimitBackoff, sinceLast, throttleHold>>
    /\ UNCHANGED <<controls, paused>>
    /\ UNCHANGED <<cacheVars, clockVars, svcVars, errVars, health, limiter>>

\* the same failure, with the jitter of line 365 drawn from both ends of
\* its range
ResponseFailJittered(w, err) ==
    /\ chains[w].pc = "in_flight"
    /\ faults < MaxFaults
    /\ faults' = faults + 1
    /\ HandleRequestErrorWith(w, chains[w].item, err, stats, JitterRange)
    /\ UNCHANGED <<queue, isProcessing, rateLimitBackoff, sinceLast, throttleHold>>
    /\ UNCHANGED <<controls, paused>>
    /\ UNCHANGED <<cacheVars, clockVars, svcVars, errVars, health, limiter>>

\* handleRequestError, lines 374-383, then processQueue line 309
RetryWake(w) ==
    /\ chains[w].pc = "retry_sleep"
    /\ chains[w].rem = 0
    /\ LET i == chains[w].item
           its == [items EXCEPT ![i].priority = @ + retryBoost, ![i].st = "queued"]
       IN  /\ items' = its
           /\ queue' = InsertByPriority(queue, i, its[i].priority, its)
    /\ chains' = [chains EXCEPT ![w] = [pc |-> "next_timer", item |-> 0,
                                        rem |-> nextCycleDelay]]
    /\ UNCHANGED <<isProcessing, rateLimitBackoff, sinceLast, stats, throttleHold, faults>>
    /\ UNCHANGED <<controls, paused>>
    /\ UNCHANGED <<cacheVars, clockVars, svcVars, errVars, health, limiter>>

\* the timer of line 309 fires: processQueue again
NextCycle(w) ==
    /\ chains[w].pc = "next_timer"
    /\ chains[w].rem = 0
    /\ RunProcessQueue(w, queue, items)
    /\ UNCHANGED <<rateLimitBackoff, stats, throttleHold, faults>>
    /\ UNCHANGED <<controls, paused>>
    /\ UNCHANGED <<cacheVars, clockVars, svcVars, errVars, health, limiter>>

\* a clear() that rejects no item
RejectNone(q, its) == its

\* clear, line 415: every item of the queue is rejected with "Queue cleared"
RECURSIVE RejectAll(_, _)
RejectAll(q, its) ==
    IF q = <<>> THEN its
    ELSE RejectAll(Tail(q), [its EXCEPT ![Head(q)].st = "rejected",
                                        ![Head(q)].settled = @ + 1,
                                        ![Head(q)].result = "Cleared"])

\* a clear() that leaves the rejected items in the queue
KeptQueue(q) == q

\* the queue that clear() leaves, line 416
ClearedQueue(q) == <<>>

\* clear, lines 414-420
Clear ==
    /\ items' = RejectAll(queue, items)
    /\ queue' = ClearedQueue(queue)
    /\ isProcessing' = FALSE
    /\ UNCHANGED <<rateLimitBackoff, sinceLast, chains, stats, throttleHold, faults>>
    /\ controls < MaxControls
    /\ controls' = controls + 1
    /\ UNCHANGED paused
    /\ UNCHANGED <<cacheVars, clockVars, svcVars, errVars, health, limiter>>

\* pause, lines 422-426
Pause ==
    /\ isProcessing' = FALSE
    /\ UNCHANGED <<queue, items, rateLimitBackoff, sinceLast, chains, stats,
                   throttleHold, faults>>
    /\ controls < MaxControls
    /\ controls' = controls + 1
    /\ paused' = {queue[n] : n \in 1..Len(queue)}
    /\ UNCHANGED <<cacheVars, clockVars, svcVars, errVars, health, limiter>>

\* resume, lines 428-433
Resume ==
    /\ IF Len(queue) > 0 /\ ~isProcessing
       THEN /\ FreeChains # {}
            /\ RunProcessQueue(CHOOSE w \in FreeChains : TRUE, queue, items)
       ELSE UNCHANGED <<queue, items, isProcessing, chains, sinceLast>>
    /\ UNCHANGED <<rateLimitBackoff, stats, throttleHold, faults>>
    /\ paused' = {}
    /\ UNCHANGED controls
    /\ UNCHANGED <<cacheVars, clockVars, svcVars, errVars, health, limiter>>

ActiveChains == {w \in ChainIds : chains[w].pc # "free"}
\* the chains in a sleep or waiting for their timer; a request in flight
\* takes as long as the transport takes
Sleeping == {w \in ChainIds : chains[w].pc \notin {"free", "in_flight"}}

\* Time passes until the next sleep or timer is due.
Advance ==
    /\ Sleeping # {}
    /\ \A w \in Sleeping : chains[w].rem > 0
    /\ LET d == CHOOSE x \in {chains[w].rem : w \in Sleeping} :
                    \A w \in Sleeping : x <= chains[w].rem
       IN  /\ chains' = [w \in ChainIds |->
                           IF w \in Sleeping
                           THEN [chains[w] EXCEPT !.rem = @ - d] ELSE chains[w]]
           /\ sinceLast' = Min(maxDelay, sinceLast + d)
           /\ throttleHold' = Max(0, throttleHold - d)
    /\ UNCHANGED <<queue, items, isProcessing, rateLimitBackoff, stats, faults>>
    /\ UNCHANGED <<controls, paused>>
    /\ UNCHANGED <<cacheVars, clockVars, svcVars, errVars, health, limiter>>

\* Time passes while no sleep or timer is pending.
IdleAdvance(d) ==
    /\ Sleeping = {}
    /\ sinceLast < maxDelay \/ throttleHold > 0
    /\ sinceLast' = Min(maxDelay, sinceLast + d)
    /\ throttleHold' = Max(0, throttleHold - d)
    /\ UNCHANGED <<queue, items, isProcessing, rateLimitBackoff, chains, stats, faults>>
    /\ UNCHANGED <<controls, paused>>
    /\ UNCHANGED <<cacheVars, clockVars, svcVars, errVars, health, limiter>>

QueueNext ==
    \/ \E p \in Priorities : Enqueue(p)
    \/ \E w \in ChainIds : BackoffWake(w)
    \/ \E w \in ChainIds : JitterWake(w)
    \/ \E w \in ChainIds : ResponseOk(w)
    \/ \E w \in ChainIds, h \in RetryAfterHeaders : Response429(w, h)
    \/ \E w \in ChainIds, err \in Failures \ {"RateLimited"} : ResponseFail(w, err)
    \/ \E w \in ChainIds : RetryWake(w)
    \/ \E w \in ChainIds : NextCycle(w)
    \/ Clear
    \/ Pause
    \/ Resume
    \/ Advance
    \/ \E d \in IdleGaps : IdleAdvance(d)

\* getStats, lines 402-408: the counters, with the length of the queue as
\* it is now
GetStats ==
    [totalRequests |-> stats.totalRequests,
     successfulRequests |-> stats.successfulRequests,
     failedRequests |-> stats.failedRequests,
     rateLimitHits |-> stats.rateLimitHits,
     queueLength |-> Len(queue),
     isProcessing |-> isProcessing]

(***************************************************************************)
(* RequestQueue.getHealthStatus                                            *)
(***************************************************************************)
\* the statistics getStats can return (lines 402-408).  The average is
\* only set when a request has succeeded (lines 295-301 and 391-396).
QueueLengths == {0, 50, 51}
SuccessCounts == {0, 1, 4}
FailureCounts == {0, 1, 2}
RateLimitHitCounts == {0, 5, 6}
AverageTimes == {0, 10000, 10001}
HealthInputs ==
    {s \in [queueLength : QueueLengths, successfulRequests : SuccessCounts,
            failedRequests : FailureCounts, rateLimitHits : RateLimitHitCounts,
            averageResponseTime : AverageTimes] :
        s.successfulRequests = 0 => s.averageResponseTime = 0}

\* getHealthStatus, lines 474-512, on statistics s: the four checks in the
\* order of the code, each assigning the status and pushing its issue
\* (lines 484, 494, 502 and 509 assign, whatever the status was).
\* (failedRequests / totalProcessed) * 100 > 20 is the same as
\* 100 * failedRequests > 20 * totalProcessed for every count below 400.
GetHealthStatus(s) ==
    LET start == [status |-> "healthy", issues |-> <<>>]
        afterLength ==
            IF s.queueLength > 50
            THEN [status |-> "warning",
                  issues |-> Append(start.issues, "queue")]
            ELSE start
        totalProcessed == s.successfulRequests + s.failedRequests
        afterFailures ==
            IF totalProcessed > 0 /\ 100 * s.failedRequests > 20 * totalProcessed
            THEN [status |-> IF 100 * s.failedRequests > 50 * totalProcessed
                              THEN "critical" ELSE "warning",
                  issues |-> Append(afterLength.issues, "failures")]
            ELSE afterLength
        afterRateLimit ==
            IF s.rateLimitHits > 5
            THEN [status |-> "warning",
                  issues |-> Append(afterFailures.issues, "rate limit")]
            ELSE afterFailures
        afterTimes ==
            IF s.averageResponseTime > 10000
            THEN [status |-> "warning",
                  issues |-> Append(afterRateLimit.issues, "response time")]
            ELSE afterRateLimit
    IN  afterTimes

NoHealth ==
    [stats |-> [queueLength |-> 0, successfulRequests |-> 0, failedRequests |-> 0,
                rateLimitHits |-> 0, averageResponseTime |-> 0],
     result |-> [status |-> "none", issues |-> <<>>]]

HealthInit == health = NoHealth

\* no limiter yet.  granted holds the times of the calls answered allowed
\* since the limiter was made or reset, calls counts the checkLimit calls
NoLimiter ==
    [made |-> FALSE, maxRequests |-> 0, windowMs |-> 0, requests |-> <<>>,
     granted |-> <<>>, calls |-> 0, result |-> [kind |-> "none"], remaining |-> 0]

LimiterInit == limiter = NoLimiter

\* getHealthStatus is called while getStats returns s
HealthCheck(s) ==
    /\ health' = [stats |-> s, result |-> GetHealthStatus(s)]
    /\ UNCHANGED <<cacheVars, clockVars, queueVars, svcVars, errVars, limiter>>

(***************************************************************************)
(* ErrorHandler                                                            *)
(***************************************************************************)
\* message.includes(word): a message is the sequence of its words
Includes(message, word) == \E n \in 1..Len(message) : message[n] = word

\* a rule that holds only authentication failures to be fatal
RecoverableUnlessAuth(type) == type # "AUTHENTICATION"

\* isRecoverable, lines 50-66
IsRecoverable(type) ==
    CASE type \in {"NETWORK", "TIMEOUT", "RATE_LIMIT"} -> TRUE
      [] type \in {"AUTHENTICATION", "PERMISSION"} -> FALSE
      [] type \in {"PARSING", "CACHE", "UNKNOWN"} -> TRUE
      [] OTHER -> FALSE

\* getUserMessage, lines 68-88
GetUserMessage(type, message) ==
    CASE type = "AUTHENTICATION" -> "Please log in to LinkedIn and try again."
      [] type = "NETWORK" ->
            "Network connection issue. Please check your internet connection."
      [] type = "RATE_LIMIT" ->
            "LinkedIn is limiting requests. Please wait a moment and try again."
      [] type = "PARSING" ->
            "Unable to process LinkedIn data. This may be due to changes in LinkedIn's interface."
      [] type = "CACHE" ->
            "Cache error occurred. Your data may need to be refreshed."
      [] type = "PERMISSION" ->
            "Extension permissions are required. Please check your browser settings."
      [] type = "TIMEOUT" -> "Request timed out. Please try again."
      [] OTHER -> "An unexpected error occurred. Please try refreshing the page."

\* getSuggestedAction, lines 90-109
GetSuggestedAction(type) ==
    CASE type = "AUTHENTICATION" -> "Navigate to LinkedIn and log in to your account"
      [] type = "NETWORK" -> "Check your internet connection and try again"
      [] type = "RATE_LIMIT" -> "Wait 5-10 minutes before making more requests"
      [] type = "PARSING" -> "Clear cache and refresh the extension"
      [] type = "CACHE" -> "Clear cache from the dashboard settings"
      [] type = "PERMISSION" ->
            "Check Chrome extension permissions in browser settings"
      [] type = "TIMEOUT" -> "Try again with a stable internet connection"
      [] OTHER -> "Refresh the page or restart the extension"

\* createError, lines 29-48: the error it returns.  The runs of the service
\* and of the queue use this value only; the log that createError writes is
\* followed in the runs of the error handler, where createError is called
\* with every kind.
CreateError(type, message) ==
    [type |-> type, message |-> message, recoverable |-> IsRecoverable(type),
     userMessage |-> GetUserMessage(type, message),
     suggestedAction |-> GetSuggestedAction(type)]

\* handleNetworkError, lines 213-223
HandleNetworkError(error) ==
    LET errorType ==
            IF Includes(error.message, "timeout") \/ error.name = "AbortError"
            THEN "TIMEOUT"
            ELSE IF Includes(error.message, "429")
                    \/ Includes(error.message, "rate limit")
                 THEN "RATE_LIMIT"
                 ELSE "NETWORK"
    IN  CreateError(errorType, error.message)

(***************************************************************************)
(* ErrorHandler: the in-memory error log and the stored critical errors    *)
(***************************************************************************)
\* lines 3-12: enum ErrorType
ErrorTypes ==
    {"AUTHENTICATION", "NETWORK", "RATE_LIMIT", "PARSING", "CACHE",
     "PERMISSION", "TIMEOUT", "UNKNOWN"}

\* the messages createError is called with
Messages == {<<"HTTP", "401", "Unauthorized">>, <<"network", "timeout">>}

\* line 27
MAX_LOG_SIZE == 100

\* line 144: slice(0, 10)
criticalLimit == 10

\* array.slice(0, n)
Take(list, n) == SubSeq(list, 1, Min(Len(list), n))

\* a log that is full takes no further error
DropNewest(log, error) ==
    IF Len(log) >= MAX_LOG_SIZE THEN log ELSE <<error>> \o log

\* the error object of the call number n of createError
ErrorObject(type, message, n) == [seq |-> n, error |-> CreateError(type, message)]

\* logError, lines 112-118: unshift, then cut the log to MAX_LOG_SIZE
LogError(log, error) ==
    LET unshifted == <<error>> \o log
    IN  IF Len(unshifted) > MAX_LOG_SIZE THEN Take(unshifted, MAX_LOG_SIZE)
        ELSE unshifted

NoneCreated ==
    [n |-> 0, calls |-> 0, burst |-> 0, type |-> "UNKNOWN", message |-> <<>>,
     sinceClear |-> <<>>, fatal |-> <<>>]

ErrorInit ==
    /\ errorLog = <<>>
    /\ criticalErrors = <<>>
    /\ storing = {}
    /\ created = NoneCreated

\* createError(type, message), lines 29-48, logError, lines 111-131, and
\* storeCriticalError up to its await of line 135, as call number n + 1 with
\* left further calls to follow in a row; calls counts the rows.  The error goes to the head of the
\* log; for a type that is not recoverable a storeCriticalError is started
\* and not awaited.
OneError(type, message, left, calls) ==
    LET error == ErrorObject(type, message, created.n + 1)
    IN  /\ errorLog' = LogError(errorLog, error)
        /\ storing' = IF error.error.recoverable THEN storing
                      ELSE storing \cup {[error |-> error, pc |-> "get",
                                          limitedErrors |-> <<>>]}
        /\ created' = [created EXCEPT
                         !.n = @ + 1, !.burst = left, !.calls = calls,
                         !.type = type, !.message = message,
                         !.sinceClear = <<error>> \o @,
                         !.fatal = IF error.error.recoverable THEN @
                                   ELSE <<error>> \o @]
        /\ UNCHANGED criticalErrors

\* synchronous code calls createError(type, message) count times in a row:
\* the first of these calls
CreateErrors(type, message, count) ==
    /\ created.burst = 0
    /\ created.calls < MaxErrorCalls
    /\ OneError(type, message, count - 1, created.calls + 1)
    /\ UNCHANGED <<cacheVars, clockVars, queueVars, svcVars, health, limiter>>

\* the next of these calls; nothing else runs in between
NextError ==
    /\ created.burst > 0
    /\ OneError(created.type, created.message, created.burst - 1, created.calls)
    /\ UNCHANGED <<cacheVars, clockVars, queueVars, svcVars, health, limiter>>

\* storeCriticalError, lines 135-144: the stored list is read, the error is
\* put at its head and the list is cut to ten entries
StoreGet(p) ==
    /\ created.burst = 0
    /\ p \in storing
    /\ p.pc = "get"
    /\ LET stored == criticalErrors
           limitedErrors == Take(<<p.error>> \o stored, criticalLimit)
       IN  storing' = (storing \ {p}) \cup
                        {[p EXCEPT !.pc = "set", !.limitedErrors = limitedErrors]}
    /\ UNCHANGED <<errorLog, criticalErrors, created>>
    /\ UNCHANGED <<cacheVars, clockVars, queueVars, svcVars, health, limiter>>

\* storeCriticalError, line 146: the list is written back
StoreSet(p) ==
    /\ created.burst = 0
    /\ p \in storing
    /\ p.pc = "set"
    /\ criticalErrors' = p.limitedErrors
    /\ storing' = storing \ {p}
    /\ UNCHANGED <<errorLog, created>>
    /\ UNCHANGED <<cacheVars, clockVars, queueVars, svcVars, health, limiter>>

\* clearErrorLog, lines 156-158
ClearErrorLog ==
    /\ created.burst = 0
    /\ errorLog' = <<>>
    /\ created' = [created EXCEPT !.sinceClear = <<>>]
    /\ UNCHANGED <<criticalErrors, storing>>
    /\ UNCHANGED <<cacheVars, clockVars, queueVars, svcVars, health, limiter>>

(***************************************************************************)
(* ConnectionsService.getAllConnections                                    *)
(***************************************************************************)
CONNECTIONS_CACHE_KEY == "connections"
batchSize == 100
maxConsecutiveFailures == 3
connectionLimit == 1000

\* how many records the remote may hold: none, less than a page, a few
\* pages, the limit exactly, more than the limit
Totals == {0, 40, 240, connectionLimit, connectionLimit + batchSize}

\* fetchConnections(start, count) on a remote that holds t records: the
\* page at that offset
PageAt(t, off, count) == [offset |-> off, size |-> Max(0, Min(count, t - off))]

\* allConnections.length, the records of the pages pushed so far
RECURSIVE Length(_)
Length(pages) ==
    IF pages = <<>> THEN 0 ELSE Head(pages).size + Length(Tail(pages))

\* fetchConnections, line 53: the response was not ok
HttpError(status, statusText) ==
    [name |-> "Error", message |-> <<"HTTP", status, statusText>>]

\* part_004 lines 323-345: the error makeRequest throws for each failure of
\* the transport; fetch rejects with an AbortError when the timeout aborts
\* it and with TypeError "Failed to fetch" when the network fails
ThrownError(err) ==
    CASE err = "RateLimited" ->
            [name |-> "Error",
             message |-> <<"Rate", "limited.", "Retry", "after", "ms">>]
      [] err = "AbortError" ->
            [name |-> "AbortError",
             message |-> <<"The", "user", "aborted", "a", "request.">>]
      [] err = "FetchError" ->
            [name |-> "TypeError", message |-> <<"Failed", "to", "fetch">>]
      [] err = "HttpError" -> HttpError("500", "Internal Server Error")

\* what fetchConnections can throw: a status that is not ok, a failed fetch,
\* a timeout of the network stack
TransportErrors ==
    {HttpError("401", "Unauthorized"), HttpError("429", "Too Many Requests"),
     [name |-> "TypeError", message |-> <<"Failed", "to", "fetch">>],
     [name |-> "Error", message |-> <<"network", "timeout">>]}

\* line 76
ConsecutiveFailuresError ==
    [name |-> "Error",
     message |-> <<"Failed", "to", "fetch", "connections", "after", "3",
                   "consecutive", "failures">>]

\* line 85
NoConnectionsError ==
    [name |-> "Error",
     message |-> <<"No", "connections", "could", "be", "fetched">>]

NoResult == [kind |-> "none"]

SvcIdle ==
    [pc |-> "idle", forceRefresh |-> FALSE, total |-> 0, start |-> 0,
     allConnections |-> <<>>, consecutiveFailures |-> 0, streak |-> 0,
     calls |-> 0,
     failed |-> FALSE, cacheFailed |-> FALSE, cacheSetFailed |-> FALSE,
     hit |-> FALSE,
     enrichment |-> FALSE, result |-> NoResult, cycles |-> 0, faults |-> 0,
     via |-> "direct", requested |-> FALSE]

\* line 124
logoBatchSize == 5

\* the distinct currentCompany values of the fetched records, in the order
\* of Array.from(uniqueCompanies)
Companies == 1..MaxCompanies
CompanyCounts == {0, MaxCompanies}

\* where one lookup of a batch stands (lines 130-147): awaiting the cache
\* read, the transport, the cache write, or ended
Finished == {"cached", "stored", "nologo", "failed"}

\* the logo task (at most one is followed at a time) and the companies whose
\* logo entry is cached; the 24 h ttl of line 139 outlasts every clock the
\* model reaches
EnrichIdle ==
    [pc |-> "idle", n |-> 0, i |-> 0, lookup |-> [c \in Companies |-> "none"],
     cached |-> {}, faults |-> 0]

\* a logo task that runs beside the task of enrich; its lookups are followed
\* from their start to their end only
NoOverlap == [pc |-> "idle", n |-> 0, i |-> 0, lookup |-> [c \in Companies |-> "none"]]

ServiceInit ==
    /\ svc = SvcIdle
    /\ enrich = EnrichIdle
    /\ overlap = NoOverlap

\* the aggregate as the cache holds it: the value and the length of its
\* JSON text
Aggregate(pages) == [v |-> pages, len |-> 2 + RecordLen * Length(pages)]

\* enforceStorageLimit, lines 171-190, with no other cache call in between:
\* the stores it can leave
EnforceStorageLimit(s, t) ==
    IF GetCacheStats(s, t).totalSize > MAX_CACHE_SIZE
    THEN LET s1 == RemoveKeys(s, ExpiredKeys(s, t))
             updatedStats == GetCacheStats(s1, t)
         IN  IF updatedStats.totalSize > MAX_CACHE_SIZE
             THEN {RemoveKeys(s1, R) :
                     R \in OldestChoices(s1, CeilThirtyPercent(updatedStats.totalItems))}
             ELSE {s1}
    ELSE {s}

\* CacheManager.set(k, d, ttl) at time t, lines 10-36, with no other cache
\* call in between: the stores it can leave
SetStores(s, k, d, t, ttl) ==
    {[s2 EXCEPT ![k] = e] : s2 \in EnforceStorageLimit(s, t),
                           e \in EntriesFor(d, t, ttl)}

\* a loop end that goes on to the cache write whatever was gathered
LeaveToCache(s) == [s EXCEPT !.pc = "cache_set"]

\* lines 84-86 and 103-107: the loop is over
LeaveLoop(s) ==
    IF Length(s.allConnections) = 0
    THEN [s EXCEPT !.pc = "thrown",
                   !.result = [kind |-> "error",
                               error |-> HandleNetworkError(NoConnectionsError)]]
    ELSE [s EXCEPT !.pc = "cache_set"]

\* an offset that does not advance
KeepStart(start) == start

\* a failure counter that a success leaves as it is
KeepFailures(consecutiveFailures) == consecutiveFailures

\* line 54: the failure counter after a successful batch
AfterSuccess(consecutiveFailures) == 0

\* line 53
AdvanceStart(start) == start + batchSize

\* what a chrome.storage.local call rejects with
StorageError == [name |-> "Error", message |-> <<"storage", "failure">>]

\* a failed storage read that leaves CacheManager.get and reaches the outer
\* catch of getAllConnections
EscapedGetFailure(s) ==
    [s EXCEPT !.pc = "thrown", !.cacheFailed = TRUE,
              !.result = [kind |-> "error",
                          error |-> HandleNetworkError(StorageError)]]

\* cache-manager.ts lines 65-68: get catches the failed storage read and
\* returns null, so line 24 falls through to the fetch
CaughtGetFailure(s) == [s EXCEPT !.pc = "fetch", !.cacheFailed = TRUE]

\* lines 18-21 and 34-40: getAllConnections(forceRefresh) is called while the
\* remote holds t records
GetAllConnections(forceRefresh, t) ==
    /\ svc.pc = "idle"
    /\ svc.cycles < MaxCycles
    /\ svc' = [SvcIdle EXCEPT !.pc = IF forceRefresh THEN "fetch" ELSE "cache_get",
                              !.forceRefresh = forceRefresh,
                              !.total = t,
                              !.cycles = svc.cycles + 1,
                              !.faults = svc.faults]
    /\ UNCHANGED <<cacheVars, clockVars, queueVars, enrich, overlap, errVars, health, limiter>>

\* lines 22-27: CacheManager.get of the main key; a value is returned as it
\* is, null starts the fetch
SvcCacheGet ==
    /\ svc.pc = "cache_get"
    /\ LET out == GetOutcome(store[CONNECTIONS_CACHE_KEY], now)
       IN  /\ store' = IF out.pc = "get_remove"
                       THEN RemoveKeys(store, {CONNECTIONS_CACHE_KEY})
                       ELSE store
           /\ svc' = IF out.data # NoData
                     THEN [svc EXCEPT !.pc = "returned", !.hit = TRUE,
                                      !.result = [kind |-> "value",
                                                  value |-> out.data.v]]
                     ELSE [svc EXCEPT !.pc = "fetch"]
    /\ UNCHANGED <<call, clockVars, queueVars, enrich, overlap, errVars, health, limiter>>

\* lines 22-27 when the storage read throws: CacheManager.get returns null
\* (cache-manager.ts, lines 65-67)
SvcCacheGetFails ==
    /\ svc.pc = "cache_get"
    /\ svc' = CaughtGetFailure(svc)
    /\ UNCHANGED <<cacheVars, clockVars, queueVars, enrich, overlap, errVars, health, limiter>>

\* lines 45-54: the transport answers the batch request
TransportPage ==
    /\ svc.pc = "fetch"
    /\ LET connections == PageAt(svc.total, svc.start, batchSize)
           called == [svc EXCEPT !.calls = @ + 1, !.streak = 0]
       IN  svc' = IF connections.size = 0
                  THEN LeaveLoop(called)
                  ELSE [called EXCEPT
                          !.allConnections = Append(@, connections),
                          !.start = AdvanceStart(@),
                          !.consecutiveFailures = AfterSuccess(@),
                          !.pc = "batch_sleep"]
    /\ UNCHANGED <<cacheVars, clockVars, queueVars, enrich, overlap, errVars, health, limiter>>

\* the sizes of data.elements in one response: the server, not the count
\* parameter, decides how many elements a page holds (part_004 lines 57-58
\* and 65-68 return one record per element)
PageSizes == {0, ShortPage, batchSize}

\* lines 45-54 for a response that holds n records
TransportAnswers(n) ==
    /\ svc.pc = "fetch"
    /\ LET connections == [offset |-> svc.start, size |-> n]
           called == [svc EXCEPT !.calls = @ + 1, !.streak = 0]
       IN  svc' = IF connections.size = 0
                  THEN LeaveLoop(called)
                  ELSE [called EXCEPT
                          !.allConnections = Append(@, connections),
                          !.start = AdvanceStart(@),
                          !.consecutiveFailures = AfterSuccess(@),
                          !.pc = "batch_sleep"]
    /\ UNCHANGED <<cacheVars, clockVars, queueVars, enrich, overlap, errVars, health, limiter>>

\* lines 57-65: the delay between batches is over; the limit is checked
BatchWake ==
    /\ svc.pc = "batch_sleep"
    /\ svc' = IF Length(svc.allConnections) >= connectionLimit
              THEN LeaveLoop(svc)
              ELSE [svc EXCEPT !.pc = "fetch"]
    /\ UNCHANGED <<cacheVars, clockVars, queueVars, enrich, overlap, errVars, health, limiter>>

\* a loop that is left with what it has gathered when the failures reach
\* the threshold
AbortToLeave(s) == LeaveLoop(s)

\* lines 75-77 and 103-107: the failures in a row have reached the
\* threshold; the error is thrown out of the loop, past lines 84-100
AbortCycle(s) ==
    [s EXCEPT !.pc = "thrown",
              !.result = [kind |-> "error",
                          error |-> HandleNetworkError(ConsecutiveFailuresError)]]

\* lines 66-81 and 103-107: the transport fails the batch request
TransportFails(e) ==
    /\ svc.pc = "fetch"
    /\ svc.faults < MaxSvcFaults
    /\ LET consecutiveFailures == svc.consecutiveFailures + 1
           error == HandleNetworkError(e)
           counted == [svc EXCEPT !.calls = @ + 1, !.faults = @ + 1,
                                  !.failed = TRUE, !.streak = @ + 1,
                                  !.consecutiveFailures = consecutiveFailures]
       IN  svc' = IF consecutiveFailures >= maxConsecutiveFailures
                  THEN AbortCycle(counted)
                  ELSE [counted EXCEPT !.pc = "retry_sleep"]
    /\ UNCHANGED <<cacheVars, clockVars, queueVars, enrich, overlap, errVars, health, limiter>>

\* line 80 and line 43: the wait before the retry is over
SvcRetryWake ==
    /\ svc.pc = "retry_sleep"
    /\ svc' = [svc EXCEPT !.pc = "fetch"]
    /\ UNCHANGED <<cacheVars, clockVars, queueVars, enrich, overlap, errVars, health, limiter>>

\* line 127: the companies of the batch that starts at index i
Batch(n, i) == {c \in Companies : i < c /\ c <= n /\ c <= i + logoBatchSize}

\* lines 126-132: batch.map starts every lookup of the batch, each runs up to
\* its cache read
StartBatch(e, i) ==
    [e EXCEPT !.pc = "batch", !.i = i,
              !.lookup = [c \in Companies |->
                            IF c \in Batch(e.n, i) THEN "get" ELSE e.lookup[c]]]

\* lines 110-126: fetchCompanyLogosInBackground is called for records that
\* name n distinct companies and runs up to its first await; with no
\* company the loop is skipped and the task is over
StartTask(e, n) ==
    IF e.pc \notin {"idle", "done"} THEN e
    ELSE LET fresh == [e EXCEPT !.n = n, !.i = 0,
                                !.lookup = [c \in Companies |-> "none"]]
         IN  IF n = 0 THEN [fresh EXCEPT !.pc = "done"]
             ELSE StartBatch(fresh, 0)

\* lines 126-132 for the task that runs beside the task of enrich
StartOverlapBatch(o, i) ==
    [o EXCEPT !.pc = "batch", !.i = i,
              !.lookup = [c \in Companies |->
                            IF c \in Batch(o.n, i) THEN "pending" ELSE o.lookup[c]]]

\* line 98: fetchCompanyLogosInBackground is called, for records that name n
\* distinct companies, while the task of e is still running: nothing makes
\* the call wait, a further task starts
StartOverlap(e, o, n) ==
    IF e.pc \in {"idle", "done"} \/ o.pc \notin {"idle", "done"} THEN o
    ELSE IF n = 0 THEN [NoOverlap EXCEPT !.pc = "done"]
    ELSE StartOverlapBatch([NoOverlap EXCEPT !.n = n], 0)

\* lines 130-147: a lookup of the further task ends
OverlapLookupEnds(c) ==
    /\ overlap.pc = "batch"
    /\ overlap.lookup[c] = "pending"
    /\ overlap' = [overlap EXCEPT !.lookup[c] = "ended"]
    /\ UNCHANGED <<cacheVars, clockVars, queueVars, svc, enrich, errVars, health, limiter>>

\* lines 129 and 150-153 for the further task
OverlapBatchSettled ==
    /\ overlap.pc = "batch"
    /\ \A c \in Batch(overlap.n, overlap.i) : overlap.lookup[c] = "ended"
    /\ overlap' = [overlap EXCEPT
                     !.pc = IF overlap.i + logoBatchSize < overlap.n
                            THEN "sleep" ELSE "done"]
    /\ UNCHANGED <<cacheVars, clockVars, queueVars, svc, enrich, errVars, health, limiter>>

\* lines 126 and 152 for the further task
OverlapWake ==
    /\ overlap.pc = "sleep"
    /\ overlap' = StartOverlapBatch(overlap, overlap.i + logoBatchSize)
    /\ UNCHANGED <<cacheVars, clockVars, queueVars, svc, enrich, errVars, health, limiter>>

\* a task that a failed lookup ends
StopTask(e) == [e EXCEPT !.pc = "done"]

\* lines 141-146: the catch of one lookup logs the error, the task goes on
KeepTask(e) == e

\* lines 133-137: the cache read of company c returns its logo (the lookup
\* is over) or null (fetchCompanyLogo sends its request)
LogoCacheGet(c) ==
    /\ enrich.pc = "batch"
    /\ enrich.lookup[c] = "get"
    /\ enrich' = [enrich EXCEPT
                    !.lookup[c] = IF c \in enrich.cached THEN "cached" ELSE "fetch"]
    /\ UNCHANGED <<cacheVars, clockVars, queueVars, svc, overlap, errVars, health, limiter>>

\* lines 133-137 when the storage read fails: CacheManager.get returns null
LogoCacheGetFails(c) ==
    /\ enrich.pc = "batch"
    /\ enrich.lookup[c] = "get"
    /\ enrich.faults < MaxLogoFaults
    /\ enrich' = [enrich EXCEPT !.lookup[c] = "fetch", !.faults = @ + 1]
    /\ UNCHANGED <<cacheVars, clockVars, queueVars, svc, overlap, errVars, health, limiter>>

\* part_004 lines 97-121 and connections-service.ts lines 137-139:
\* fetchCompanyLogo returns a URL and the cache write is started
LogoResponse(c) ==
    /\ enrich.pc = "batch"
    /\ enrich.lookup[c] = "fetch"
    /\ enrich' = [enrich EXCEPT !.lookup[c] = "set"]
    /\ UNCHANGED <<cacheVars, clockVars, queueVars, svc, overlap, errVars, health, limiter>>

\* part_004 lines 107 and 124-128: the response is not ok, names no logo, or
\* the fetch failed; fetchCompanyLogo returns undefined and line 138 skips
\* the cache write
LogoMissing(c) ==
    /\ enrich.pc = "batch"
    /\ enrich.lookup[c] = "fetch"
    /\ enrich.faults < MaxLogoFaults
    /\ enrich' = [KeepTask(enrich) EXCEPT !.lookup[c] = "nologo", !.faults = @ + 1]
    /\ UNCHANGED <<cacheVars, clockVars, queueVars, svc, overlap, errVars, health, limiter>>

\* line 139: the logo is cached for 24 hours
LogoCacheSet(c) ==
    /\ enrich.pc = "batch"
    /\ enrich.lookup[c] = "set"
    /\ enrich' = [enrich EXCEPT !.lookup[c] = "stored",
                                !.cached = @ \cup {c}]
    /\ UNCHANGED <<cacheVars, clockVars, queueVars, svc, overlap, errVars, health, limiter>>

\* lines 139-146: CacheManager.set throws, the catch of the lookup logs it
LogoCacheSetFails(c) ==
    /\ enrich.pc = "batch"
    /\ enrich.lookup[c] = "set"
    /\ enrich.faults < MaxLogoFaults
    /\ enrich' = [KeepTask(enrich) EXCEPT !.lookup[c] = "failed", !.faults = @ + 1]
    /\ UNCHANGED <<cacheVars, clockVars, queueVars, svc, overlap, errVars, health, limiter>>

\* lines 129 and 150-153: Promise.allSettled resolves once every lookup of
\* the batch has ended; the task sleeps before a further batch or is over
BatchSettled ==
    /\ enrich.pc = "batch"
    /\ \A c \in Batch(enrich.n, enrich.i) : enrich.lookup[c] \in Finished
    /\ enrich' = [enrich EXCEPT
                    !.pc = IF enrich.i + logoBatchSize < enrich.n
                           THEN "sleep" ELSE "done"]
    /\ UNCHANGED <<cacheVars, clockVars, queueVars, svc, overlap, errVars, health, limiter>>

\* lines 126 and 152: the sleep between batches ends, the next batch starts
EnrichWake ==
    /\ enrich.pc = "sleep"
    /\ enrich' = StartBatch(enrich, enrich.i + logoBatchSize)
    /\ UNCHANGED <<cacheVars, clockVars, queueVars, svc, overlap, errVars, health, limiter>>

EnrichStep ==
    \/ \E c \in Companies : LogoCacheGet(c)
    \/ \E c \in Companies : LogoCacheGetFails(c)
    \/ \E c \in Companies : LogoResponse(c)
    \/ \E c \in Companies : LogoMissing(c)
    \/ \E c \in Companies : LogoCacheSet(c)
    \/ \E c \in Companies : LogoCacheSetFails(c)
    \/ BatchSettled
    \/ EnrichWake

\* lines 88-102: the aggregate, whose records name n distinct companies, is
\* cached with the default TTL, the logo task is started and not awaited,
\* the aggregate is returned
SvcCacheSet(n) ==
    /\ svc.pc = "cache_set"
    /\ enrich' = StartTask(enrich, n)
    /\ overlap' = StartOverlap(enrich, overlap, n)
    /\ store' \in SetStores(store, CONNECTIONS_CACHE_KEY,
                             Aggregate(svc.allConnections), now, DEFAULT_TTL)
    /\ svc' = [svc EXCEPT !.pc = "returned", !.enrichment = TRUE,
                          !.result = [kind |-> "value",
                                      value |-> svc.allConnections]]
    /\ UNCHANGED <<call, clockVars, queueVars, errVars, health, limiter>>

\* lines 88-102 when CacheManager.set throws: the aggregate is returned
\* without caching
SvcCacheSetFails(n) ==
    /\ svc.pc = "cache_set"
    /\ enrich' = StartTask(enrich, n)
    /\ overlap' = StartOverlap(enrich, overlap, n)
    /\ svc' = [svc EXCEPT !.pc = "returned", !.enrichment = TRUE,
                          !.cacheFailed = TRUE, !.cacheSetFailed = TRUE,
                          !.result = [kind |-> "value",
                                      value |-> svc.allConnections]]
    /\ UNCHANGED <<cacheVars, clockVars, queueVars, errVars, health, limiter>>

\* part_002 lines 16-17 and 74-76, connections-service.ts lines 160-162: the
\* getConnections message with request.forceRefresh arrives while the remote
\* holds t records; handleGetConnections calls getConnectionsWithLogos(),
\* which calls getAllConnections() with its default argument
HandleGetConnections(forceRefresh, t) ==
    /\ svc.pc = "idle"
    /\ svc.cycles < MaxCycles
    /\ svc' = [SvcIdle EXCEPT !.pc = "cache_get",
                              !.forceRefresh = FALSE,
                              !.via = "getConnections",
                              !.requested = forceRefresh,
                              !.total = t,
                              !.cycles = svc.cycles + 1,
                              !.faults = svc.faults]
    /\ UNCHANGED <<cacheVars, clockVars, queueVars, enrich, overlap, errVars, health, limiter>>

\* connections-service.ts lines 164-185 and part_002 lines 45-50, 63-64, 77:
\* getConnectionsWithLogos attaches the cached logos to the records and the
\* message handler answers with them, or with the handled error of
\* getAllConnections
SendResponse ==
    /\ svc.via = "getConnections"
    /\ svc.pc \in {"returned", "thrown"}
    /\ svc' = IF svc.pc = "returned"
              THEN [svc EXCEPT !.pc = "responded",
                               !.result = [kind |-> "value",
                                           value |-> svc.result.value,
                                           logos |-> enrich.cached]]
              ELSE [svc EXCEPT !.pc = "responded"]
    /\ UNCHANGED <<cacheVars, clockVars, queueVars, enrich, overlap, errVars, health, limiter>>

\* the caller has taken the result
SvcSettled ==
    /\ \/ svc.via \in {"direct", "refresh"} /\ svc.pc \in {"returned", "thrown"}
       \/ svc.pc = "responded"
    /\ svc' = [SvcIdle EXCEPT !.cycles = svc.cycles, !.faults = svc.faults]
    /\ UNCHANGED <<cacheVars, clockVars, queueVars, enrich, overlap, errVars, health, limiter>>

\* refreshConnections, lines 192-194, is called while the remote holds t
\* records: it starts CacheManager.remove of the main key
RefreshConnections(t) ==
    /\ svc.pc = "idle"
    /\ svc.cycles < MaxCycles
    /\ svc' = [SvcIdle EXCEPT !.pc = "refresh_remove",
                              !.forceRefresh = TRUE,
                              !.via = "refresh",
                              !.total = t,
                              !.cycles = svc.cycles + 1,
                              !.faults = svc.faults]
    /\ UNCHANGED <<cacheVars, clockVars, queueVars, enrich, overlap, errVars, health, limiter>>

\* line 194, cache-manager.ts lines 71-74: the entry is removed; line 195
\* calls getAllConnections(true), which goes to the fetch
RefreshRemove ==
    /\ svc.pc = "refresh_remove"
    /\ Drop({CONNECTIONS_CACHE_KEY})
    /\ svc' = [svc EXCEPT !.pc = "fetch"]
    /\ UNCHANGED <<call, clockVars, queueVars, enrich, overlap, errVars, health, limiter>>

\* line 194 when chrome.storage.local.remove rejects: CacheManager.remove
\* catches and logs (cache-manager.ts lines 75-77) and returns, so line 195
\* is reached all the same
RefreshRemoveFails ==
    /\ svc.pc = "refresh_remove"
    /\ svc.faults < MaxSvcFaults
    /\ svc' = [svc EXCEPT !.pc = "fetch", !.cacheFailed = TRUE, !.faults = @ + 1]
    /\ UNCHANGED <<cacheVars, clockVars, queueVars, enrich, overlap, errVars, health, limiter>>

ServiceNext ==
    \/ \E forceRefresh \in BOOLEAN, t \in Totals : GetAllConnections(forceRefresh, t)
    \/ \E forceRefresh \in BOOLEAN, t \in Totals : HandleGetConnections(forceRefresh, t)
    \/ SendResponse
    \/ SvcCacheGet
    \/ SvcCacheGetFails
    \/ TransportPage
    \/ BatchWake
    \/ \E e \in TransportErrors : TransportFails(e)
    \/ SvcRetryWake
    \/ SvcCacheSet(0)
    \/ SvcCacheSetFails(0)
    \/ SvcSettled
    \/ CacheTick

(***************************************************************************)
(* Specifications                                                          *)
(***************************************************************************)
Init ==
    /\ CacheInit /\ ClockInit /\ QueueInit /\ ServiceInit /\ ErrorInit /\ HealthInit
    /\ LimiterInit

SpecCache == Init /\ [][CacheNext]_vars

\* the damage the validateCache runs are checked with
CorruptInputs ==
    {<<"connections", "ttl">>, <<"company_logo_A", "timestamp">>,
     <<"company_logo_A", "ttl">>}

\* validateCache after sets and damage
ValidateNext ==
    \/ \E c \in Sequential, k \in Keys, d \in Data : SetCall(c, k, d, DEFAULT_TTL)
    \/ \E c \in Sequential : SetEnforceStats(c)
    \/ \E c \in Sequential : CleanupRead(c)
    \/ \E c \in Sequential : CleanupRemove(c)
    \/ \E c \in Sequential : SetEnforceStats2(c)
    \/ \E c \in Sequential : EvictRead(c)
    \/ \E c \in Sequential : EvictRemove(c)
    \/ \E c \in Sequential : SetWrite(c)
    \/ \E c \in Sequential : SetReturn(c)
    \/ \E x \in CorruptInputs : Corrupt(x[1], x[2])
    \/ \E c \in Sequential : ValidateRead(c)
    \/ \E c \in Sequential : ValidateRemove(c)
    \/ \E c \in Sequential : ValidateReturn(c)

SpecValidate == Init /\ [][ValidateNext]_vars

\* the ttl values the cleanupExpired runs are checked with
CleanupTTLs == {0, DEFAULT_TTL}

\* cleanupExpired after sets with these ttl values, while the clock runs
CleanupNext ==
    \/ \E c \in Sequential, k \in Keys, d \in Data, ttl \in CleanupTTLs :
          SetCall(c, k, d, ttl)
    \/ \E c \in Sequential : SetEnforceStats(c)
    \/ \E c \in Sequential : SetEnforceStats2(c)
    \/ \E c \in Sequential : EvictRead(c)
    \/ \E c \in Sequential : EvictRemove(c)
    \/ \E c \in Sequential : SetWrite(c)
    \/ \E c \in Sequential : SetReturn(c)
    \/ \E c \in Sequential : CleanupCall(c)
    \/ \E c \in Sequential : CleanupRead(c)
    \/ \E c \in Sequential : CleanupRemove(c)
    \/ CacheTick

SpecCleanup == Init /\ [][CleanupNext]_vars

\* the keys of the company logos
LogoKeys == Keys \ {"connections"}

\* set called by getAllConnections (connections-service.ts line 90) while
\* fetchCompanyLogosInBackground, which is not awaited, calls set for the
\* logos (line 139): the steps of the two calls interleave, in a stretch
\* of time shorter than a tick of the clock
ConcurrentSetsNext ==
    \/ \E d \in Data : SetCall("main", "connections", d, DEFAULT_TTL)
    \/ \E k \in LogoKeys, d \in Data : SetCall("enrich", k, d, LOGO_TTL)
    \/ \E c \in Callers : SetEnforceStats(c)
    \/ \E c \in Callers : CleanupRead(c)
    \/ \E c \in Callers : CleanupRemove(c)
    \/ \E c \in Callers : SetEnforceStats2(c)
    \/ \E c \in Callers : EvictRead(c)
    \/ \E c \in Callers : EvictRemove(c)
    \/ \E c \in Callers : SetWrite(c)
    \/ \E c \in Callers : SetReturn(c)

SpecConcurrentSets == Init /\ [][ConcurrentSetsNext]_vars

SpecQueue == Init /\ [][QueueNext]_vars

\* a step of the worker: a timer or sleep of processQueue that is due, the
\* passing of time up to the next one, or the end of a transport call
WorkerStep ==
    \/ \E w \in ChainIds : BackoffWake(w)
    \/ \E w \in ChainIds : JitterWake(w)
    \/ \E w \in ChainIds : ResponseOk(w)
    \/ \E w \in ChainIds, h \in RetryAfterHeaders : Response429(w, h)
    \/ \E w \in ChainIds, err \in Failures \ {"RateLimited"} : ResponseFail(w, err)
    \/ \E w \in ChainIds : RetryWake(w)
    \/ \E w \in ChainIds : NextCycle(w)
    \/ Advance

\* the inputs of the runs that are checked for progress
FairPriorities == {0}
FairHeaders == {[kind |-> "absent", secs |-> 0]}
FairFailures == {"FetchError", "HttpError"}

QueueFairNext ==
    \/ \E p \in FairPriorities : Enqueue(p)
    \/ \E w \in ChainIds : BackoffWake(w)
    \/ \E w \in ChainIds : JitterWake(w)
    \/ \E w \in ChainIds : ResponseOk(w)
    \/ \E w \in ChainIds, h \in FairHeaders : Response429(w, h)
    \/ \E w \in ChainIds, err \in FairFailures : ResponseFail(w, err)
    \/ \E w \in ChainIds : RetryWake(w)
    \/ \E w \in ChainIds : NextCycle(w)
    \/ Clear
    \/ Pause
    \/ Resume
    \/ Advance
    \/ \E d \in IdleGaps : IdleAdvance(d)

\* the event loop runs every timer that is due and every transport call
\* ends (fetch resolves, rejects or is aborted by the timeout of line 314)
SpecQueueFair == Init /\ [][QueueFairNext]_vars /\ WF_vars(WorkerStep)

\* the runs the retry delays are checked on: every failure draws its jitter
\* from both ends of the range
RetryNext ==
    \/ \E p \in FairPriorities : Enqueue(p)
    \/ \E w \in ChainIds : BackoffWake(w)
    \/ \E w \in ChainIds : JitterWake(w)
    \/ \E w \in ChainIds : ResponseOk(w)
    \/ \E w \in ChainIds, h \in FairHeaders : Response429(w, h)
    \/ \E w \in ChainIds, err \in Failures \ {"RateLimited"} : ResponseFailJittered(w, err)
    \/ \E w \in ChainIds : RetryWake(w)
    \/ \E w \in ChainIds : NextCycle(w)
    \/ Advance
    \/ \E d \in IdleGaps : IdleAdvance(d)

SpecRetry == Init /\ [][RetryNext]_vars

\* the runs the spacing of the dispatches is checked on: one item more,
\* requests that succeed, and the controls
SpacingNext ==
    \/ \E p \in FairPriorities : EnqueueWithin(p, MaxItems + 1)
    \/ \E w \in ChainIds : JitterWake(w)
    \/ \E w \in ChainIds : ResponseOk(w)
    \/ \E w \in ChainIds : NextCycle(w)
    \/ Clear
    \/ Pause
    \/ Resume
    \/ Advance
    \/ \E d \in IdleGaps : IdleAdvance(d)

SpecSpacing == Init /\ [][SpacingNext]_vars

(***************************************************************************)
(* RateLimiter                                                             *)
(***************************************************************************)
\* the arguments the limiter is constructed with (part_004 lines 137-140)
LimiterConfigs ==
    {[maxRequests |-> 1, windowMs |-> 2], [maxRequests |-> 2, windowMs |-> 3]}

\* line 146 and line 164: the timestamps still inside the window at time t
InWindow(requests, t, windowMs) ==
    SelectSeq(requests, LAMBDA timestamp : t - timestamp < windowMs)

\* a limit that is reached only when it is passed
OverLimit(length, maxRequests) == length > maxRequests

\* line 148
AtLimit(length, maxRequests) == length >= maxRequests

\* Math.min(...this.requests), line 149, of a list that is not empty
OldestRequest(requests) ==
    CHOOSE x \in {requests[n] : n \in 1..Len(requests)} :
        \A n \in 1..Len(requests) : x <= requests[n]

\* new RateLimiter(maxRequests, windowMs), lines 137-140
NewRateLimiter(cfg) ==
    /\ ~limiter.made
    /\ limiter' = [NoLimiter EXCEPT !.made = TRUE,
                                    !.maxRequests = cfg.maxRequests,
                                    !.windowMs = cfg.windowMs]
    /\ UNCHANGED <<cacheVars, clockVars, queueVars, svcVars, errVars, health>>

\* checkLimit, lines 142-160
CheckLimit ==
    /\ limiter.made
    /\ limiter.calls < MaxLimiterCalls
    /\ LET kept == InWindow(limiter.requests, now, limiter.windowMs)
       IN  limiter' =
             IF AtLimit(Len(kept), limiter.maxRequests)
             THEN LET retryAfter == limiter.windowMs - (now - OldestRequest(kept))
                  IN  [limiter EXCEPT
                         !.requests = kept,
                         !.calls = @ + 1,
                         !.result = [allowed |-> FALSE,
                                     retryAfter |-> Max(0, retryAfter)]]
             ELSE [limiter EXCEPT
                     !.requests = Append(kept, now),
                     !.granted = Append(@, now),
                     !.calls = @ + 1,
                     !.result = [allowed |-> TRUE]]
    /\ UNCHANGED <<cacheVars, clockVars, queueVars, svcVars, errVars, health>>

\* getRemainingRequests, lines 162-166
GetRemainingRequests ==
    /\ limiter.made
    /\ LET kept == InWindow(limiter.requests, now, limiter.windowMs)
       IN  limiter' = [limiter EXCEPT
                         !.requests = kept,
                         !.remaining = Max(0, limiter.maxRequests - Len(kept))]
    /\ UNCHANGED <<cacheVars, clockVars, queueVars, svcVars, errVars, health>>

\* reset, lines 175-177: the limiter starts over
LimiterReset ==
    /\ limiter.made
    /\ limiter.requests # <<>>
    /\ limiter' = [limiter EXCEPT !.requests = <<>>, !.granted = <<>>]
    /\ UNCHANGED <<cacheVars, clockVars, queueVars, svcVars, errVars, health>>

\* a millisecond passes
LimiterTick ==
    /\ limiter.made
    /\ ticks < MaxLimiterTicks
    /\ now' = now + 1
    /\ ticks' = ticks + 1
    /\ UNCHANGED <<cacheVars, queueVars, svcVars, errVars, health, limiter>>

LimiterNext ==
    \/ \E cfg \in LimiterConfigs : NewRateLimiter(cfg)
    \/ CheckLimit
    \/ GetRemainingRequests
    \/ LimiterReset
    \/ LimiterTick

SpecLimiter == Init /\ [][LimiterNext]_vars

(***************************************************************************)
(* ConnectionsService.performHealthCheck                                   *)
(***************************************************************************)
\* what getCacheStats (line 236), ErrorHandler.getErrorAnalysis (line 244)
\* and requestQueue.getStats (line 258) can return
CacheStatInputs ==
    {c \in [totalItems : {0, 2, 4}, expiredItems : {0, 1, 2, 3}] :
        c.expiredItems <= c.totalItems}
ErrorAnalysisInputs == [recentErrors : {0, 10, 11}, criticalErrors : {0, 1}]
QueueStatInputs == [queueLength : QueueLengths]
ServiceHealthInputs ==
    [cacheStats : CacheStatInputs, errorAnalysis : ErrorAnalysisInputs,
     queueStats : QueueStatInputs]

\* performHealthCheck, lines 230-271, on the statistics in: the four checks
\* in the order of the code, each pushing its issue and assigning the status
\* (lines 240, 248, 254 and 262 assign, whatever the status was)
PerformHealthCheck(in) ==
    LET start == [status |-> "healthy", issues |-> <<>>]
        afterCache ==
            IF 2 * in.cacheStats.expiredItems > in.cacheStats.totalItems
            THEN [status |-> "warning", issues |-> Append(start.issues, "expired")]
            ELSE start
        afterRecent ==
            IF in.errorAnalysis.recentErrors > 10
            THEN [status |-> "warning",
                  issues |-> Append(afterCache.issues, "error rate")]
            ELSE afterCache
        afterCritical ==
            IF in.errorAnalysis.criticalErrors > 0
            THEN [status |-> "critical",
                  issues |-> Append(afterRecent.issues, "critical errors")]
            ELSE afterRecent
        afterQueue ==
            IF in.queueStats.queueLength > 50
            THEN [status |-> "warning",
                  issues |-> Append(afterCritical.issues, "queue")]
            ELSE afterCritical
    IN  afterQueue

\* performHealthCheck is called while the three sources return in
ServiceHealthCheck(in) ==
    /\ health' = [stats |-> in, result |-> PerformHealthCheck(in)]
    /\ UNCHANGED <<cacheVars, clockVars, queueVars, svcVars, errVars, limiter>>

ServiceHealthNext == \E in \in ServiceHealthInputs : ServiceHealthCheck(in)

SpecServiceHealth == Init /\ [][ServiceHealthNext]_vars

SpecService == Init /\ [][ServiceNext]_vars

\* the page size of the remote data the enrichment runs are checked with
EnrichTotals == {40}

EnrichNext ==
    \/ \E forceRefresh \in BOOLEAN, t \in EnrichTotals : GetAllConnections(forceRefresh, t)
    \/ SvcCacheGet
    \/ TransportPage
    \/ BatchWake
    \/ \E n \in CompanyCounts : SvcCacheSet(n)
    \/ SvcSettled
    \/ EnrichStep

SpecEnrich == Init /\ [][EnrichNext]_vars

\* two forced fetch cycles, each starting its logo task, the second one
\* while the task of the first may still be running; no lookup fails
OverlapNext ==
    \/ \E t \in EnrichTotals : GetAllConnections(TRUE, t)
    \/ TransportPage
    \/ BatchWake
    \/ SvcCacheSet(MaxCompanies)
    \/ SvcSettled
    \/ \E c \in Companies : LogoCacheGet(c)
    \/ \E c \in Companies : LogoResponse(c)
    \/ \E c \in Companies : LogoCacheSet(c)
    \/ BatchSettled
    \/ EnrichWake
    \/ \E c \in Companies : OverlapLookupEnds(c)
    \/ OverlapBatchSettled
    \/ OverlapWake

SpecOverlap == Init /\ [][OverlapNext]_vars

\* one fetch cycle after a cache miss, over every sequence of page sizes,
\* and a second call that reads what the first one cached
PagesNext ==
    \/ GetAllConnections(FALSE, 0)
    \/ SvcCacheGet
    \/ \E n \in PageSizes : TransportAnswers(n)
    \/ BatchWake
    \/ SvcCacheSet(0)
    \/ SvcSettled

SpecPages == Init /\ [][PagesNext]_vars

\* the remote data the refresh runs are checked with
RefreshTotals == {40}

\* getAllConnections fills the cache, refreshConnections follows, while the
\* transport and the storage may fail and the clock runs
RefreshNext ==
    \/ \E t \in RefreshTotals : GetAllConnections(FALSE, t)
    \/ \E t \in RefreshTotals : RefreshConnections(t)
    \/ RefreshRemove
    \/ RefreshRemoveFails
    \/ SvcCacheGet
    \/ TransportPage
    \/ BatchWake
    \/ \E e \in TransportErrors : TransportFails(e)
    \/ SvcRetryWake
    \/ SvcCacheSet(0)
    \/ SvcCacheSetFails(0)
    \/ SvcSettled
    \/ CacheTick

SpecRefresh == Init /\ [][RefreshNext]_vars

\* the types whose errors are created in bursts
BurstTypes == {"NETWORK"}

\* createError called from anywhere, one call or a burst of calls, the
\* stores of critical errors it starts, and clearErrorLog
ErrorsNext ==
    \/ \E type \in ErrorTypes, message \in Messages : CreateErrors(type, message, 1)
    \/ \E type \in BurstTypes, message \in Messages : CreateErrors(type, message, BurstLen)
    \/ NextError
    \/ \E p \in storing : StoreGet(p)
    \/ \E p \in storing : StoreSet(p)
    \/ ClearErrorLog

SpecErrors == Init /\ [][ErrorsNext]_vars

HealthNext == \E s \in HealthInputs : HealthCheck(s)

SpecHealth == Init /\ [][HealthNext]_vars

(***************************************************************************)
(* Properties of the cache                                                 *)
(***************************************************************************)
TotalSize == SumSizes(store, PresentKeys(store))

\* C1: whenever a set has just returned, the sizes of the stored entries sum
\* to at most MAX_CACHE_SIZE.
SetKeepsCeiling ==
    \A c \in Callers :
        call[c].pc = "set_return" => TotalSize <= MAX_CACHE_SIZE

\* C2: a get that read the entry a set wrote returns that set's data while
\* less than ttl has passed since the set, and returns a miss once more than
\* ttl has passed.
GetRoundTrip ==
    \A c \in Callers :
        call[c].pc = "get_return" /\ call[c].seen.present =>
            LET e == call[c].seen
                age == call[c].ts - e.timestamp
            IN  /\ age < e.ttl => call[c].data = e.data
                /\ age > e.ttl => call[c].data = NoData

\* C2 witness: a get returned the data of a compressed entry read some time
\* after it was set.
GetRoundTripWitness ==
    \E c \in Callers :
        /\ call[c].pc = "get_return"
        /\ call[c].seen.present
        /\ call[c].seen.compressed
        /\ call[c].ts > call[c].seen.timestamp
        /\ call[c].ts - call[c].seen.timestamp < call[c].seen.ttl
        /\ call[c].data = call[c].seen.data
        /\ call[c].data \in Data

(***************************************************************************)
(* RequestQueue properties                                                 *)
(***************************************************************************)
\* chain w hands its item to the transport in this step
Dispatching(w) == chains[w].pc # "in_flight" /\ chains'[w].pc = "in_flight"

InFlight == {w \in ChainIds : chains[w].pc = "in_flight"}

\* C3: whenever a chain hands an item to the transport, no item waiting in
\* the queue at that moment has a strictly higher priority, and no waiting
\* item of the same priority was enqueued earlier (of two items that were
\* never retried, the one with the smaller id was enqueued earlier).
DispatchInPriorityOrder ==
    [][\A w \in ChainIds : Dispatching(w) =>
          LET i == chains'[w].item IN
          \A k \in 1..Len(queue') :
              LET j == queue'[k] IN
              /\ items'[j].priority <= items'[i].priority
              /\ (/\ items'[j].priority = items'[i].priority
                  /\ items'[j].retries = 0
                  /\ items'[i].retries = 0) => i < j]_vars

RetryableFailures == {err \in Failures : IsRetryable(err)}

\* the transport fails the request of chain w with err
Fails(w, err) ==
    IF err = "RateLimited" THEN \E h \in RetryAfterHeaders : Response429(w, h)
    ELSE ResponseFail(w, err)

\* C4: an item that has failed maxRetries times with a retryable kind is
\* resolved with the response when its next attempt succeeds, and is
\* rejected with the error of that attempt when it fails once more with a
\* retryable kind; no item is dispatched more than maxRetries + 1 times.
RetriesThenSettles ==
    [][/\ \A w \in ChainIds :
            /\ (ResponseOk(w) /\ items[chains[w].item].retries = maxRetries) =>
                   /\ items'[chains[w].item].st = "resolved"
                   /\ items'[chains[w].item].result = "response"
            /\ \A err \in RetryableFailures :
                   (Fails(w, err) /\ items[chains[w].item].retries = maxRetries) =>
                       /\ items'[chains[w].item].st = "rejected"
                       /\ items'[chains[w].item].result = err
       /\ \A i \in ItemIds : items'[i].dispatches <= maxRetries + 1]_vars

\* an item rejected with a retryable kind after maxRetries + 1 dispatches
RetriesThenSettlesWitness ==
    \E i \in ItemIds :
        /\ items[i].st = "rejected"
        /\ items[i].result \in RetryableFailures
        /\ items[i].retries = maxRetries
        /\ items[i].dispatches = maxRetries + 1

\* C5: over any interleaving of enqueue, clear, pause, resume, retries and
\* worker steps, the completion of every item is settled at most once.
SettledAtMostOnce == \A i \in ItemIds : items[i].settled <= 1

\* an item that was retried and then rejected by clear(), with a second
\* chain started after the clear
SettledAtMostOnceWitness ==
    /\ \E i \in ItemIds :
          /\ items[i].settled = 1
          /\ items[i].result = "Cleared"
          /\ items[i].retries > 0
    /\ ActiveChains = ChainIds

\* C6: in every reachable state at most one processQueue chain is active
\* and at most one item is in flight on the transport.
SingleWorker ==
    /\ Cardinality(ActiveChains) <= 1
    /\ Cardinality(InFlight) <= 1

\* C7: a 429 carrying a delay D (5000 when no header) sets rateLimitBackoff
\* to max(previous value, D), and no item is dispatched before D has passed
\* since that response.
ThrottleDelaysNextDispatch ==
    [][/\ \A w \in ChainIds, h \in RetryAfterHeaders :
            (Response429(w, h) /\ h.kind # "date") =>
                rateLimitBackoff' = Num(Max(rateLimitBackoff.ms, BackoffTime(h).ms))
       /\ \A w \in ChainIds : Dispatching(w) => throttleHold = 0]_vars

\* chain w starts a dispatch cycle in this step: it takes an item from the
\* queue
TakesItem(w) ==
    /\ chains[w].pc \in {"free", "next_timer"}
    /\ chains'[w].pc \notin {"free", "next_timer"}

\* C8: rateLimitBackoff is never negative; it changes only by a 429 or by
\* the decay step (minus 1000, floored at 0) taken after a backoff sleep;
\* and it reaches 0 after finitely many dispatch cycles, as every cycle that
\* starts while it is not 0 takes the backoff sleep and so the decay step.
BackoffDecaysToZero ==
    /\ [](rateLimitBackoff.nan \/ rateLimitBackoff.ms >= 0)
    /\ [][/\ rateLimitBackoff' # rateLimitBackoff =>
               \/ \E w \in ChainIds, h \in RetryAfterHeaders : Response429(w, h)
               \/ /\ \E w \in ChainIds : BackoffWake(w)
                  /\ rateLimitBackoff' =
                         Num(Max(0, rateLimitBackoff.ms - backoffDecay))
          /\ \A w \in ChainIds :
                (TakesItem(w) /\ rateLimitBackoff # Num(0)) =>
                    chains'[w].pc = "backoff_sleep"]_vars

(***************************************************************************)
(* ConnectionsService properties                                           *)
(***************************************************************************)
\* the non-empty pages P1..Pn of a remote that holds t records, from offset
\* off on
RECURSIVE PagesFrom(_, _)
PagesFrom(t, off) ==
    IF PageAt(t, off, batchSize).size = 0 THEN <<>>
    ELSE <<PageAt(t, off, batchSize)>> \o PagesFrom(t, off + batchSize)

AllPages(t) == PagesFrom(t, 0)

\* getAllConnections(false) has returned after a cache miss, and no
\* transport or cache call has failed
ReturnedFromFetch ==
    /\ svc.pc = "returned"
    /\ ~svc.forceRefresh
    /\ ~svc.hit
    /\ ~svc.failed
    /\ ~svc.cacheFailed

\* the value is the concatenation P1..Pn, the transport was called n + 1
\* times, and the main key holds that aggregate with the default TTL
ReturnedAllPages ==
    /\ svc.result = [kind |-> "value", value |-> AllPages(svc.total)]
    /\ svc.calls = Len(AllPages(svc.total)) + 1
    /\ store[CONNECTIONS_CACHE_KEY].present
    /\ store[CONNECTIONS_CACHE_KEY].data = Aggregate(AllPages(svc.total))
    /\ store[CONNECTIONS_CACHE_KEY].ttl = DEFAULT_TTL

\* C9, as stated: on a cache miss, when the transport yields non-empty pages
\* P1..Pn followed by an empty page and no call fails, getAllConnections(false)
\* returns the concatenation P1..Pn, calls the transport n + 1 times with
\* offsets advancing by the batch size, and caches the aggregate under the
\* main key with the default TTL.
FetchReturnsAllPagesAsStated ==
    (ReturnedFromFetch /\ svc.total > 0) => ReturnedAllPages

\* C9: the same, for pages that hold fewer than 1000 records in total.
FetchReturnsAllPages ==
    (ReturnedFromFetch /\ svc.total > 0 /\ svc.total < connectionLimit) =>
        ReturnedAllPages

\* three pages were fetched with four transport calls and returned
FetchReturnsAllPagesWitness ==
    /\ ReturnedFromFetch
    /\ svc.total = 240
    /\ Len(svc.result.value) = 3
    /\ svc.calls = 4

\* C10: when the transport fails the first batch of getAllConnections(false)
\* with an authentication failure (HTTP 401), the call ends at once with an
\* error of type AUTHENTICATION that is not recoverable: no retry, no further
\* batch.
AuthFailureIsSurfaced ==
    [][(/\ TransportFails(HttpError("401", "Unauthorized"))
        /\ svc.calls = 0
        /\ ~svc.forceRefresh) =>
           /\ svc'.pc = "thrown"
           /\ svc'.result.error.type = "AUTHENTICATION"
           /\ ~svc'.result.error.recoverable]_vars

\* the fetch cycle is in its batch loop
InBatchLoop == svc.pc \in {"fetch", "batch_sleep", "retry_sleep"}

\* the cycle was aborted for consecutive failures (line 76)
AbortedForFailures ==
    /\ svc.pc \in {"thrown", "responded"}
    /\ svc.result.kind = "error"
    /\ svc.result.error.message = ConsecutiveFailuresError.message

\* C11: within a fetch cycle the consecutive-failure counter equals the
\* number of failed batch attempts since the last successful batch
\* (svc.streak); the cycle is aborted for failures exactly when that number
\* reaches 3, so no batch is attempted after three consecutive failures and
\* no cycle is aborted with fewer.
FailureCounterCountsStreak ==
    /\ (InBatchLoop \/ AbortedForFailures) => svc.consecutiveFailures = svc.streak
    /\ InBatchLoop => svc.streak < maxConsecutiveFailures
    /\ AbortedForFailures => svc.streak = maxConsecutiveFailures
    /\ (svc.streak >= maxConsecutiveFailures /\ svc.pc # "idle") => AbortedForFailures

\* a cycle aborted after a failure, a successful batch and three more
\* failures
FailureCounterCountsStreakWitness ==
    /\ AbortedForFailures
    /\ Len(svc.allConnections) > 0
    /\ svc.calls = Len(svc.allConnections) + 4

\* the main cache entry is stored and its ttl has not elapsed
MainEntryFresh ==
    /\ store[CONNECTIONS_CACHE_KEY].present
    /\ now - store[CONNECTIONS_CACHE_KEY].timestamp <= store[CONNECTIONS_CACHE_KEY].ttl

\* C12: when getAllConnections(false) reads a main cache entry that is
\* present and unexpired, it returns exactly the records of that entry, has
\* made no transport call, leaves the cache as it was and starts no
\* enrichment task.
CacheHitHasNoEffect ==
    [][(SvcCacheGet /\ MainEntryFresh) =>
          /\ ~svc.forceRefresh
          /\ svc'.pc = "returned"
          /\ svc'.result = [kind |-> "value",
                            value |-> store[CONNECTIONS_CACHE_KEY].data.v]
          /\ svc'.calls = 0
          /\ store' = store
          /\ ~svc'.enrichment]_vars

\* a second cycle was answered from a cached aggregate of more than one page
CacheHitHasNoEffectWitness ==
    /\ svc.pc = "returned"
    /\ svc.hit
    /\ svc.cycles = 2
    /\ svc.calls = 0
    /\ Len(svc.result.value) > 1
    /\ svc.result.value = store[CONNECTIONS_CACHE_KEY].data.v

\* C13: a getConnections message with forceRefresh = true is answered from a
\* remote fetch and never from the cache, whatever the main cache entry
\* holds.
ForceRefreshBypassesCache ==
    (svc.via = "getConnections" /\ svc.requested /\ svc.pc = "responded"
        /\ svc.result.kind = "value")
      => (~svc.hit /\ svc.calls > 0)

\* C14: a cache failure never propagates out of getAllConnections: a failed
\* cache read is treated as a miss and the fetch starts, a failed cache
\* write still returns the fetched records, and a cycle is rejected only for
\* its fetch (three consecutive failures, or no record fetched), never with
\* a CACHE error.
CacheFailureNeverPropagates ==
    [][/\ SvcCacheGetFails =>
             (svc'.pc = "fetch" /\ svc'.result = NoResult /\ svc'.calls = 0)
       /\ (\E n \in CompanyCounts : SvcCacheSetFails(n)) =>
             (/\ svc'.pc = "returned"
              /\ svc'.result = [kind |-> "value", value |-> svc.allConnections]
              /\ Length(svc.allConnections) > 0)
       /\ svc'.pc = "thrown" =>
             (/\ svc'.result.error.type # "CACHE"
              /\ \/ svc'.streak = maxConsecutiveFailures
                 \/ Length(svc'.allConnections) = 0)]_vars

\* a cycle whose cache read and cache write both failed returned the three
\* pages it fetched
CacheFailureNeverPropagatesWitness ==
    /\ svc.pc = "returned"
    /\ ~svc.forceRefresh
    /\ svc.cacheFailed
    /\ svc.cacheSetFailed
    /\ svc.calls > Len(svc.allConnections)
    /\ Len(svc.result.value) = 3
    /\ ~store[CONNECTIONS_CACHE_KEY].present

(***************************************************************************)
(* Properties of the enrichment task                                       *)
(***************************************************************************)
\* a lookup of company c ends in a failure: no logo from the transport, or
\* a storage failure of its cache read or cache write
LookupFails(c) == LogoMissing(c) \/ LogoCacheGetFails(c) \/ LogoCacheSetFails(c)

\* C15: getAllConnections returns the fetched records while every lookup of
\* the logo task it started is still pending; no step of the logo task
\* changes the state or the result of a getAllConnections call; a failing
\* lookup leaves the task running and every other lookup where it was; and
\* the task sleeps or ends only when every lookup up to there has ended.
EnrichmentNeverEscalates ==
    [][/\ (svc.pc = "cache_set" /\ svc'.pc = "returned") =>
             /\ svc'.result = [kind |-> "value", value |-> svc.allConnections]
             /\ (enrich' # enrich /\ enrich'.n > 0) =>
                    \A c \in Batch(enrich'.n, 0) : enrich'.lookup[c] = "get"
       /\ EnrichStep => svc' = svc
       /\ \A c \in Companies :
             LookupFails(c) =>
                /\ enrich'.pc = "batch"
                /\ \A d \in Companies \ {c} : enrich'.lookup[d] = enrich.lookup[d]
       /\ enrich'.pc = "done" =>
             \A c \in 1..enrich'.n : enrich'.lookup[c] \in Finished
       /\ enrich'.pc = "sleep" =>
             \A c \in 1..(enrich'.i + logoBatchSize) :
                 enrich'.lookup[c] \in Finished]_vars

\* a task of two batches ended although a lookup of its first batch got no
\* logo and another failed to cache its logo; the second batch stored its
\* logo
EnrichmentNeverEscalatesWitness ==
    /\ enrich.pc = "done"
    /\ enrich.n > logoBatchSize
    /\ \E c \in 1..logoBatchSize : enrich.lookup[c] = "nologo"
    /\ \E c \in 1..logoBatchSize : enrich.lookup[c] = "failed"
    /\ enrich.lookup[logoBatchSize + 1] = "stored"

\* the requests of the service that the transport has not answered yet: the
\* page request of the fetch cycle and the logo requests of the task
RequestsInFlight ==
    Cardinality({c \in Companies : enrich.lookup[c] = "fetch"})
        + (IF svc.pc = "fetch" THEN 1 ELSE 0)

\* C16: every request of the service is one that the request queue has
\* handed to the transport, so at most one request of the service is in
\* flight at any time.
OneRequestInFlight ==
    /\ RequestsInFlight <= Cardinality(InFlight)
    /\ RequestsInFlight <= 1

(***************************************************************************)
(* Properties of pause, resume and clear                                   *)
(***************************************************************************)
\* C17: between pause() and the next resume() no item that was queued at
\* the pause is handed to the transport, and none of them leaves the queue
\* or is settled.
PauseHoldsQueuedItems ==
    /\ [][\A w \in ChainIds :
            Dispatching(w) => chains'[w].item \notin paused']_vars
    /\ [](\A i \in paused : items[i].st = "queued")

\* the items that clear() has rejected
Cleared == {i \in ItemIds : items[i].result = "Cleared"}

\* C18: clear() rejects every item of the queue with the cancellation error
\* and leaves the queue empty, whatever the worker is doing; an item that
\* clear() rejected is never again in the queue, held by the worker,
\* dispatched or settled.
ClearRejectsForGood ==
    /\ [][Clear =>
            /\ queue' = <<>>
            /\ \A n \in 1..Len(queue) :
                  /\ items'[queue[n]].st = "rejected"
                  /\ items'[queue[n]].result = "Cleared"
                  /\ items'[queue[n]].settled = items[queue[n]].settled + 1]_vars
    /\ [][\A i \in Cleared : items'[i] = items[i]]_vars
    /\ [](\A i \in Cleared :
            /\ items[i].settled = 1
            /\ \A n \in 1..Len(queue) : queue[n] # i
            /\ \A w \in ChainIds : chains[w].pc # "free" => chains[w].item # i)

\* clear() rejected an item that had been dispatched and was waiting for its
\* retry, while the worker held another item that was resolved afterwards
ClearRejectsForGoodWitness ==
    \E i \in Cleared, j \in ItemIds :
        /\ items[i].dispatches > 0
        /\ items[j].st = "resolved"
        /\ items[j].dispatches > 0
        /\ queue = <<>>

(***************************************************************************)
(* Properties of the retry policy                                          *)
(***************************************************************************)
\* the kinds the queue is to retry
TransientKinds == {"NETWORK", "TIMEOUT", "RATE_LIMIT"}

\* C19: when the request of an item fails, the item is re-queued for a retry
\* if and only if the Error Classifier puts the failure in Network, Timeout
\* or RateLimit and the item has been retried fewer than maxRetries times;
\* otherwise the item is rejected with that failure.
RetryIffTransientKind ==
    [][\A w \in ChainIds, err \in Failures :
          Fails(w, err) =>
             LET i == chains[w].item
                 transient == HandleNetworkError(ThrownError(err)).type
                                  \in TransientKinds
             IN  IF transient /\ items[i].retries < maxRetries
                 THEN /\ items'[i].retries = items[i].retries + 1
                      /\ items'[i].st = "held"
                      /\ chains'[w].pc = "retry_sleep"
                 ELSE /\ items'[i].st = "rejected"
                      /\ items'[i].result = err]_vars

(***************************************************************************)
(* Progress of the queue                                                   *)
(***************************************************************************)
Pending == {i \in ItemIds : items[i].st \in {"queued", "held"}}

\* C20: every item passed to enqueue is eventually resolved or rejected.
EveryItemSettles ==
    \A i \in ItemIds :
        (i \in Pending) ~> (items[i].st \in {"resolved", "rejected"})

\* an item was retried maxRetries times and then settled, and an item that
\* was enqueued while the worker was busy with it was resolved
EveryItemSettlesWitness ==
    \E i, j \in ItemIds :
        /\ i < j
        /\ items[i].retries = maxRetries
        /\ items[i].st \in {"resolved", "rejected"}
        /\ items[i].dispatches = maxRetries + 1
        /\ items[j].st = "resolved"
        /\ Pending = {}

(***************************************************************************)
(* Properties of validateCache                                             *)
(***************************************************************************)
\* the entries of store s that lack a timestamp or a ttl
Lacking(s) == {k \in Keys : s[k].present /\ \E f \in EntryFields : s[k][f] = 0}

FetchCycleKeepsCap ==
    /\ svc.pc = "returned" => Length(svc.result.value) <= connectionLimit
    /\ store[CONNECTIONS_CACHE_KEY].present =>
          Length(store[CONNECTIONS_CACHE_KEY].data.v) <= connectionLimit


(***************************************************************************)
(* Properties of the error handler                                         *)
(***************************************************************************)
\* the errors of the log that have the type of error e
SameKind(e) == {i \in 1..Len(errorLog) : errorLog[i].error.type = e.type}

\* C23: the error that createError has just built is not recoverable exactly
\* when its kind is AUTHENTICATION or PERMISSION, and it has the
\* recoverable flag, the user message and the suggested action of every
\* logged error of its kind, whatever their messages.
ClassificationByKind ==
    errorLog # <<>> =>
        LET e == errorLog[1].error
        IN  /\ e.type \in ErrorTypes
            /\ e.recoverable = (e.type \notin {"AUTHENTICATION", "PERMISSION"})
            /\ \A i \in SameKind(e) :
                  /\ errorLog[i].error.recoverable = e.recoverable
                  /\ errorLog[i].error.userMessage = e.userMessage
                  /\ errorLog[i].error.suggestedAction = e.suggestedAction

\* two errors of kind PERMISSION with different messages are in the log,
\* after an error of a recoverable kind
ClassificationByKindWitness ==
    /\ Len(errorLog) = 3
    /\ errorLog[1].error.type = "PERMISSION"
    /\ errorLog[2].error.type = "PERMISSION"
    /\ errorLog[1].error.message # errorLog[2].error.message
    /\ ~errorLog[1].error.recoverable
    /\ errorLog[3].error.type = "CACHE"
    /\ errorLog[3].error.recoverable

\* C24: after any sequence of createError and clearErrorLog calls the log
\* holds at most 100 errors: the min(n, 100) most recent of the n errors
\* created since the last clear, newest first.
LogKeepsMostRecent ==
    LET n == Len(created.sinceClear)
        kept == IF n <= 100 THEN n ELSE 100
    IN  /\ Len(errorLog) = kept
        /\ \A i \in 1..kept : errorLog[i] = created.sinceClear[i]
        /\ \A i \in 1..(kept - 1) : errorLog[i].seq > errorLog[i + 1].seq

\* the log overflowed after a clear that followed at least one error
LogKeepsMostRecentWitness ==
    /\ Len(errorLog) = 100
    /\ Len(created.sinceClear) > 100
    /\ created.n > Len(created.sinceClear)
    /\ errorLog[1].seq = created.n

\* C25: once no store is pending, the stored critical errors are the
\* min(m, 10) most recent of the m errors created with a kind that is not
\* recoverable, newest first, however the stores interleaved.
CriticalLogComplete ==
    (storing = {} /\ created.burst = 0) =>
        LET m == Len(created.fatal)
            kept == IF m <= 10 THEN m ELSE 10
        IN  /\ Len(criticalErrors) = kept
            /\ \A i \in 1..kept : criticalErrors[i] = created.fatal[i]

(***************************************************************************)
(* Properties of getHealthStatus                                           *)
(***************************************************************************)
\* the failure rate of statistics s is above pct percent
FailureRateAbove(s, pct) ==
    /\ s.successfulRequests + s.failedRequests > 0
    /\ 100 * s.failedRequests > pct * (s.successfulRequests + s.failedRequests)

\* one of the conditions that call for a warning holds
Degraded(s) ==
    \/ s.queueLength > 50
    \/ FailureRateAbove(s, 20)
    \/ s.rateLimitHits > 5
    \/ s.averageResponseTime > 10000

\* C26: getHealthStatus returns critical whenever the failure rate is above
\* 50%, at least warning whenever the queue is longer than 50, the failure
\* rate is above 20%, there were more than 5 rate-limit hits or the average
\* latency is above 10 s, and healthy exactly when none of these holds.
HealthStatusByThresholds ==
    health.result.status # "none" =>
        /\ FailureRateAbove(health.stats, 50) => health.result.status = "critical"
        /\ Degraded(health.stats) => health.result.status \in {"warning", "critical"}
        /\ health.result.status = "healthy" <=> ~Degraded(health.stats)

(***************************************************************************)
(* Properties of the cache: expiry on read, eviction, concurrent sets      *)
(***************************************************************************)
\* caller c calls get(k) in this step
GetCalled(c, k) ==
    /\ call[c].pc = "idle"
    /\ call'[c].pc \in {"get_remove", "get_return"}
    /\ call'[c].key = k

\* C28: an entry is visible to get if and only if now - createdAt < ttl: from
\* now - createdAt = ttl on, the boundary included, get reports a miss and
\* deletes the entry; earlier get returns a hit and leaves the entry alone.
GetVisibleIffYoungerThanTtl ==
    [][\A c \in Callers, k \in Keys :
          GetCalled(c, k) /\ store[k].present =>
              IF now - store[k].timestamp >= store[k].ttl
              THEN call'[c].pc = "get_remove" /\ call'[c].data.len = 0
              ELSE call'[c].pc = "get_return" /\ call'[c].data.len > 0]_vars

\* caller c, in a set, removes entries in this step
SetRemoves(c) ==
    /\ call[c].pc \in {"set_cleanup_remove", "set_evict_remove"}
    /\ PresentKeys(store') # PresentKeys(store)

\* caller c writes the entry of its set in this step, with the clock still
\* at the time of the call
SetWrites(c) ==
    /\ call[c].pc = "set_write"
    /\ call'[c].pc = "set_return"
    /\ call[c].ts = now

\* C29: when a set would push the total size over the ceiling it first
\* removes all expired entries and, if that is not enough, the oldest 30% of
\* the rest, every entry removed in that second step being no younger than
\* any entry retained; when the total is not over the ceiling set removes
\* no entry.
SetEvictsWhenOverCeiling ==
    [][\A c \in Sequential :
          /\ SetWrites(c) /\ SumSizes(store', PresentKeys(store')) > MAX_CACHE_SIZE
                => ExpiredKeys(store', now) = {}
          /\ SetRemoves(c) /\ call[c].pc = "set_evict_remove"
                => \A r \in PresentKeys(store) \ PresentKeys(store') :
                      \A k \in PresentKeys(store') :
                          store[r].timestamp <= store[k].timestamp
          /\ SetRemoves(c) => TotalSize > MAX_CACHE_SIZE]_vars

\* the stores that set(a) followed by set(b), each run alone, can leave on
\* store s
SerialStores(s, a, b) ==
    UNION {SetStores(s1, b.key, b.data, b.ts, b.ttl) :
             s1 \in SetStores(s, a.key, a.data, a.ts, a.ttl)}

\* both callers have written the entry of a set that started on the same store
BothSetsWritten ==
    /\ \A c \in Callers : call[c].pc = "set_return"
    /\ call["main"].snap = call["enrich"].snap

\* C27: set's sequence of reading the statistics, deciding the eviction and
\* writing is atomic with respect to other set calls: interleaved sets of
\* the main path and of the enrichment leave the store that the same calls
\* leave in some serial order.
ConcurrentSetsAreSerial ==
    BothSetsWritten =>
        store \in SerialStores(call["main"].snap, call["main"], call["enrich"])
                    \cup SerialStores(call["main"].snap, call["enrich"], call["main"])

(***************************************************************************)
(* Properties of the retry order                                           *)
(***************************************************************************)
\* item b goes to the transport in this step
Dispatched(b) == items'[b].dispatches = items[b].dispatches + 1

\* the items that failed before b was enqueued, with a priority no lower than
\* that of b, and still wait for their retry
StillOwed(b) ==
    {a \in (IF items[b].st = "none" THEN RetriesOwed(items'[b].priority)
                                     ELSE items[b].after) :
        items[a].st \in {"queued", "held"}}

\* C30: an item that failed with a retryable error and is re-inserted with
\* its priority raised by 10 is dispatched before every item of equal or
\* lower priority enqueued after its failure, also when that item was
\* enqueued during the retry delay.
RetriedItemGoesFirst ==
    [][\A b \in ItemIds : Dispatched(b) => StillOwed(b) = {}]_vars

(***************************************************************************)
(* Properties of cleanupExpired                                            *)
(***************************************************************************)
\* cleanupExpired, called on its own by c, returns in this step, at the clock
\* value it read the entries at
CleanupReturns(c) ==
    /\ call[c].pc = "cleanup_remove"
    /\ call'[c].pc = "idle"
    /\ call[c].ts = now

\* C31: cleanupExpired deletes all and only the entries whose ttl has lapsed
\* and returns their number: right after it returns getCacheStats reports
\* no expired item and the returned count fewer items, for every stored ttl,
\* ttl = 0 included.
CleanupLeavesNoExpired ==
    [][\A c \in Callers :
          CleanupReturns(c) =>
              LET count == Cardinality(call[c].keys)
                  before == GetCacheStats(store, now)
                  after == GetCacheStats(store', now)
              IN  /\ after.expiredItems = 0
                  /\ after.totalItems = before.totalItems - count
                  /\ count = before.expiredItems]_vars

(***************************************************************************)
(* Properties of refreshConnections                                        *)
(***************************************************************************)
\* refreshConnections has resolved or rejected
RefreshDone == svc.via = "refresh" /\ svc.pc \in {"returned", "thrown"}

\* C32: once refreshConnections has completed, with a value or an error, the
\* main cache key holds the aggregate this refresh fetched or is absent; a
\* refresh whose fetch fails leaves the key absent, and refresh never
\* returns cached records.
RefreshLeavesNoOlderData ==
    RefreshDone =>
        /\ ~svc.hit
        /\ IF svc.pc = "returned" /\ ~svc.cacheSetFailed
           THEN /\ store[CONNECTIONS_CACHE_KEY].present
                /\ store[CONNECTIONS_CACHE_KEY].data = Aggregate(svc.allConnections)
           ELSE ~store[CONNECTIONS_CACHE_KEY].present

(***************************************************************************)
(* Properties of the batches of the enrichment                             *)
(***************************************************************************)
\* the lookups that have been issued and have not settled
PendingLookups ==
    {<<"enrich", c>> : c \in {x \in Companies : enrich.lookup[x] \in {"get", "fetch", "set"}}}
        \cup {<<"overlap", c>> : c \in {x \in Companies : overlap.lookup[x] = "pending"}}

\* a lookup of company c is issued in this step by the task of enrich
Issued(c) == enrich'.lookup[c] = "get" /\ enrich.lookup[c] # "get"

\* C33: the enrichment has a bounded fan-out with a barrier between batches:
\* at any time at most 5 lookups are pending, no lookup of a batch is issued
\* before every lookup of the batch before it has settled, and a key is
\* looked up at most once in a run.
EnrichmentFanOutBounded ==
    /\ [](Cardinality(PendingLookups) <= logoBatchSize)
    /\ [](\A c \in Companies :
            enrich.lookup[c] # "none" =>
                \A d \in 1..enrich.i : enrich.lookup[d] \in Finished)
    /\ [][\A c \in Companies :
            Issued(c) /\ enrich.pc \notin {"idle", "done"} =>
                enrich.lookup[c] = "none"]_vars

\* C34: the delay slept before the k-th retry of an item, k = 1..maxRetries,
\* is at least the base delay times 2^(k-1) and less than that plus the
\* 1000 ms of jitter: at least 1, 2 and 4 times the base delay.
RetryStarts(w) ==
    chains[w].pc = "in_flight" /\ chains'[w].pc = "retry_sleep"

RetryDelayDoubles ==
    [][\A w \in ChainIds :
          RetryStarts(w) =>
              LET i == chains[w].item
                  k == items'[i].retries
                  least == IF k = 1 THEN defaultRetryDelay
                           ELSE IF k = 2 THEN 2 * defaultRetryDelay
                           ELSE 4 * defaultRetryDelay
              IN  /\ k = items[i].retries + 1
                  /\ k \in 1..maxRetries
                  /\ chains'[w].rem >= least
                  /\ chains'[w].rem < least + maxJitter]_vars

ThirdRetrySleeps ==
    \E w \in ChainIds :
        /\ chains[w].pc = "retry_sleep"
        /\ items[chains[w].item].retries = maxRetries
        /\ chains[w].rem = 4 * defaultRetryDelay + maxJitter - 1

\* C35: any two consecutive dispatches to the transport are at least
\* minDelay apart, after any interleaving of enqueue, pause, resume and
\* clear: a chain that dispatches finds the last dispatch minDelay or more
\* in the past.
Dispatches(w) ==
    chains[w].pc # "in_flight" /\ chains'[w].pc = "in_flight"

DispatchesMinDelayApart ==
    [][\A w \in ChainIds : Dispatches(w) => sinceLast >= minDelay]_vars

\* C36: when a fetch cycle aborts because the batch failures in a row have
\* reached the threshold, getAllConnections rejects: the records gathered
\* so far are neither returned nor cached, the main key holds what it held
\* before the fetch, and no enrichment task is started.
InFetchLoop == svc.pc \in {"fetch", "batch_sleep", "retry_sleep"}

ThresholdReached ==
    svc.pc = "fetch" /\ svc'.streak >= maxConsecutiveFailures

Aborted ==
    /\ svc.pc \in {"thrown", "responded"}
    /\ svc.streak >= maxConsecutiveFailures

AbortedCycleLeavesNothing ==
    /\ [][ThresholdReached =>
            /\ svc'.pc = "thrown"
            /\ svc'.result.kind = "error"
            /\ ~svc'.enrichment
            /\ store' = store /\ enrich' = enrich /\ overlap' = overlap]_vars
    /\ [][InFetchLoop => store'[CONNECTIONS_CACHE_KEY] = store[CONNECTIONS_CACHE_KEY]]_vars
    /\ [][Aborted =>
            /\ svc'.pc \in {"thrown", "responded", "idle"}
            /\ svc'.pc # "idle" => svc'.result = svc.result /\ ~svc'.enrichment
            /\ store' = store /\ enrich' = enrich /\ overlap' = overlap]_vars

AbortedWithRecords ==
    /\ svc.pc = "thrown"
    /\ svc.streak = maxConsecutiveFailures
    /\ Length(svc.allConnections) > 0
    /\ store[CONNECTIONS_CACHE_KEY].present

\* C37: when the very first page is empty, getAllConnections rejects with
\* an error, writes nothing to the cache and starts no enrichment task: it
\* never returns an empty record list and the main key never holds one.
FirstPageEmpty ==
    /\ svc.pc = "fetch"
    /\ svc.allConnections = <<>>
    /\ svc'.calls = svc.calls + 1
    /\ svc'.streak = 0
    /\ svc'.allConnections = <<>>

NothingFetched ==
    /\ svc.pc \in {"thrown", "responded"}
    /\ svc.result = [kind |-> "error", error |-> HandleNetworkError(NoConnectionsError)]

EmptyFirstPageRejects ==
    /\ [][FirstPageEmpty =>
            /\ svc'.pc = "thrown"
            /\ svc'.result = [kind |-> "error",
                               error |-> HandleNetworkError(NoConnectionsError)]
            /\ ~svc'.enrichment
            /\ store' = store /\ enrich' = enrich /\ overlap' = overlap]_vars
    /\ [][NothingFetched =>
            /\ svc'.pc \in {"thrown", "responded", "idle"}
            /\ ~svc'.enrichment
            /\ store' = store /\ enrich' = enrich /\ overlap' = overlap]_vars
    /\ [](svc.result.kind = "value" => Length(svc.result.value) > 0)
    /\ [](store[CONNECTIONS_CACHE_KEY].present =>
              Length(store[CONNECTIONS_CACHE_KEY].data.v) > 0)

EmptyFirstPageThrown ==
    /\ svc.pc = "thrown"
    /\ svc.calls = 1
    /\ svc.allConnections = <<>>
    /\ svc.result = [kind |-> "error", error |-> HandleNetworkError(NoConnectionsError)]

\* C38: the verdict of performHealthCheck is the worst severity among its
\* findings: critical whenever the error analysis reports at least one
\* critical error, whatever the cache and queue statistics are, and healthy
\* if and only if the list of issues is empty.
Severity(issue) == IF issue = "critical errors" THEN "critical" ELSE "warning"

WorstSeverity(issues) ==
    IF issues = <<>> THEN "healthy"
    ELSE IF \E n \in 1..Len(issues) : Severity(issues[n]) = "critical" THEN "critical"
    ELSE "warning"

VerdictIsWorstFinding ==
    health # NoHealth =>
        /\ health.stats.errorAnalysis.criticalErrors > 0 =>
               health.result.status = "critical"
        /\ health.result.status = "healthy" <=> health.result.issues = <<>>
        /\ health.result.status = WorstSeverity(health.result.issues)

\* C39: the requests counted as successful and as failed are never more
\* than the requests counted in all; every item that was enqueued counts
\* once at most, as successful or as failed, and the items rejected by
\* clear count as neither; the queue length of getStats is the number of
\* items waiting in the queue.
Succeeded == {i \in ItemIds : items[i].result = "response"}
Failed == {i \in ItemIds : items[i].st = "rejected" /\ items[i].result # "Cleared"}
Waiting == {i \in ItemIds : \E n \in 1..Len(queue) : queue[n] = i}

CountersCountItemsOnce ==
    /\ GetStats.successfulRequests + GetStats.failedRequests <= GetStats.totalRequests
    /\ GetStats.totalRequests = Cardinality({i \in ItemIds : items[i].st # "none"})
    /\ GetStats.successfulRequests = Cardinality(Succeeded)
    /\ GetStats.failedRequests = Cardinality(Failed)
    /\ Succeeded \cap Failed = {}
    /\ \A i \in ItemIds : items[i].settled <= 1
    /\ GetStats.queueLength = Cardinality(Waiting)

ClearedAndFailedCounted ==
    /\ \E i \in ItemIds : items[i].result = "Cleared"
    /\ \E j \in Failed : items[j].retries = maxRetries
    /\ GetStats.totalRequests = 2
    /\ GetStats.failedRequests = 1
    /\ GetStats.successfulRequests = 0

\* C40: for any sequence of checkLimit calls at times that do not go back,
\* the calls answered allowed within any interval shorter than windowMs are
\* at most maxRequests; a call answered not allowed takes no slot and
\* reports a retryAfter of 0 or more, the time until the oldest counted
\* request leaves the window.
GrantedFrom(t) ==
    {k \in 1..Len(limiter.granted) :
        t <= limiter.granted[k] /\ limiter.granted[k] < t + limiter.windowMs}

Denied ==
    /\ limiter'.calls = limiter.calls + 1
    /\ ~limiter'.result.allowed

\* the time from t until a request made at timestamp is outside the window
TimeToLeave(timestamp, t, windowMs) ==
    CHOOSE d \in 0..windowMs :
        /\ ~(t + d - timestamp < windowMs)
        /\ \A e \in 0..(d - 1) : t + e - timestamp < windowMs

LimiterBoundsEveryWindow ==
    /\ [](\A n \in 1..Len(limiter.granted) :
              Cardinality(GrantedFrom(limiter.granted[n])) <= limiter.maxRequests)
    /\ [][Denied =>
            /\ limiter'.granted = limiter.granted
            /\ Len(limiter'.requests) <= Len(limiter.requests)
            /\ Len(limiter'.requests) = limiter.maxRequests
            /\ limiter'.result.retryAfter >= 0
            /\ limiter'.result.retryAfter =
                  TimeToLeave(OldestRequest(limiter'.requests), now,
                              limiter.windowMs)]_vars

DeniedInSecondWindow ==
    /\ limiter.made
    /\ limiter.maxRequests = 2
    /\ Len(limiter.granted) = 3
    /\ limiter.result = [allowed |-> FALSE, retryAfter |-> 2]

====
